---- MODULE Spec2Model ----
(***************************************************************************)
(* Schedule RC normalisation and reconciliation: a model of the two panel  *)
(* builders, build_full_panel.py ("full") and build_rc_assets_panel.py     *)
(* ("rc"), with the resolver of one_quarter_assets_demo.py ("demo").       *)
(*                                                                         *)
(* A DataFrame is a record [columns, data]: the ordered column names and   *)
(* one row (a function from column name to cell) per institution.  A       *)
(* DataFrame lives on a heap of objects, so that df.copy() and in-place    *)
(* assignment are distinguishable.  A Series is a sequence of cells.       *)
(* A cell is a string as read from the file, a number, or NaN.             *)
(***************************************************************************)
EXTENDS Integers, Sequences, FiniteSets, TLC

VARIABLES
    script,     \* which program runs: "full", "rc" or "demo"
    pc,         \* position of the program
    qdate,      \* reporting date of the quarter, YYYYMMDD
    heap,       \* the DataFrame objects, by object id
    df0,        \* the table as it was read (history of heap[1])
    res,        \* what the last call returned
    out,        \* the quarter's standardized rows
    missing_cols, \* the needed mnemonics the quarter's file lacks
    status,     \* how the quarter ended
    fs,         \* the raw directory: what each quarter's folder holds
    listing,    \* the order in which the file system lists folders and files
    qs,         \* the quarters the driver loop iterates, in its order
    qi,         \* the loop's position in qs
    panel_parts,  \* the frames accumulated (panel_parts / frames)
    summary_rows, \* the summary records accumulated
    missing_rows, \* the missing-column log entries accumulated
    written     \* the files written at the end of the run

runvars == <<fs, listing, qs, qi, panel_parts, summary_rows, missing_rows, written>>

vars == <<script, pc, qdate, heap, df0, res, out, missing_cols, status,
          fs, listing, qs, qi, panel_parts, summary_rows, missing_rows, written>>

\* No run of a driver loop is in progress.
RunIdle ==
    /\ fs = <<>> /\ listing = <<>> /\ qs = <<>> /\ qi = 0
    /\ panel_parts = <<>> /\ summary_rows = <<>> /\ missing_rows = <<>>
    /\ written = <<>>

(***************************************************************************)
(* Bounds of the model.                                                    *)
(***************************************************************************)
MaxVal == 2
MaxResolveRows == 1
MaxRows == 1
MinYear == 1990
MaxYear == 2024

(***************************************************************************)
(* Cells.                                                                  *)
(***************************************************************************)
NaN == [t |-> "nan", s |-> "", n |-> 0]
Num(i) == [t |-> "num", s |-> "", n |-> i]
Str(x) == [t |-> "str", s |-> x, n |-> 0]

isna(c) == c.t = "nan"
notna(c) == c.t # "nan"

\* The amounts a cell of the model can hold.
Amounts == (0 - 1)..MaxVal

\* The cells read_csv(dtype=str) yields: a blank field is NaN, any other
\* field is the string as written ("x": a field that is not a number).
RawCells == {NaN, Str("x")} \cup {Str(ToString(i)) : i \in Amounts}

\* pd.to_numeric(cell, errors="coerce"): a numeric string parses, a number
\* stays, everything else (NaN, unparseable text) is NaN.
to_numeric(c) ==
    IF c.t = "num" THEN c
    ELSE IF c.t = "str" /\ \E i \in Amounts : ToString(i) = c.s
         THEN Num(CHOOSE i \in Amounts : ToString(i) = c.s)
         ELSE NaN

(***************************************************************************)
(* DataFrames on the heap.                                                 *)
(***************************************************************************)
Range(q) == {q[i] : i \in 1..Len(q)}

\* F applied to the value of v, v being evaluated once.
Once(v, F(_)) == CHOOSE x \in {F(y) : y \in {v}} : TRUE

\* A sequence and a row given by a rule, as explicit values (the same
\* function, enumerated once instead of at every application).
AsSeq(f) == f \o <<>>
AsRow(f) == f @@ <<>>

HasCol(df, c) == c \in Range(df.columns)

NRows(df) == Len(df.data)

\* df[c] for a column that exists: the column's cells, by row.
Column(df, c) == AsSeq([i \in 1..NRows(df) |-> df.data[i][c]])

\* df[c] = series (in place): replaces the column or appends a new one.
SetColumn(df, c, series) ==
    [columns |-> IF HasCol(df, c) THEN df.columns ELSE Append(df.columns, c),
     data    |-> AsSeq([i \in 1..NRows(df) |->
                    AsRow([k \in Range(df.columns) \cup {c} |->
                        IF k = c THEN series[i] ELSE df.data[i][k]])])]

\* df.copy(): a new object holding the same columns and cells.
\* (copy_alias: out = df, the same object under a second name.)
copy_alias(h, id) == [heap |-> h, ref |-> id]
copy(h, id) == [heap |-> Append(h, h[id]), ref |-> Len(h) + 1]

(***************************************************************************)
(* The Field Resolver of build_full_panel.py.                              *)
(***************************************************************************)
\* to_num_series(df, col): a new numeric Series; all NaN if col is absent.
to_num_series(df, col) ==
    IF HasCol(df, col)
    THEN AsSeq([i \in 1..NRows(df) |-> to_numeric(df.data[i][col])])
    ELSE AsSeq([i \in 1..NRows(df) |-> NaN])

\* The mask of prefer_rcfd, row by row.
\* (use_b_ignores_a: takes RCON whenever it is non-zero;
\*  use_b_missing_only: falls back when RCFD is missing, not when it is 0.)
use_b_ignores_a(a, b) == notna(b) /\ b.n # 0
use_b_missing_only(a, b) == isna(a) /\ notna(b) /\ b.n # 0
use_b(a, b) == (isna(a) \/ (a.t = "num" /\ a.n = 0)) /\ notna(b) /\ b.n # 0

prefer_cell(a, b) == IF use_b(a, b) THEN b ELSE a

\* Row i of to_num_series(df, col).
to_num_at(df, col, i) == IF HasCol(df, col) THEN to_numeric(df.data[i][col]) ELSE NaN

\* Row i of prefer_rcfd(df, rcfd_col, rcon_col).
prefer_rcfd_at(df, rcfd_col, rcon_col, i) ==
    prefer_cell(to_num_at(df, rcfd_col, i), to_num_at(df, rcon_col, i))

\* prefer_rcfd(df, rcfd_col, rcon_col): out = a.copy(); out[use_b] = b[use_b].
\* a and b are new Series, so the heap is returned as it was passed.
prefer_rcfd(h, id, rcfd_col, rcon_col) ==
    [heap |-> h,
     ret  |-> AsSeq([i \in 1..NRows(h[id]) |-> prefer_rcfd_at(h[id], rcfd_col, rcon_col, i)])]

(***************************************************************************)
(* Column names.  A header is spelled in upper case in the FFIEC files;    *)
(* build_rc_assets_panel.py lower-cases it and strips wrapping quotes.     *)
(***************************************************************************)
\* The four-character item codes, as <<upper case, lower case>>.
Codes ==
    << <<"0081", "0081">>, <<"0071", "0071">>, <<"1754", "1754">>,
       <<"JJ34", "jj34">>, <<"1773", "1773">>, <<"JA22", "ja22">>,
       <<"0276", "0276">>, <<"B987", "b987">>, <<"0277", "0277">>,
       <<"B989", "b989">>, <<"1350", "1350">>, <<"2122", "2122">>,
       <<"B528", "b528">>, <<"3128", "3128">>, <<"3123", "3123">>,
       <<"2125", "2125">>, <<"B529", "b529">>, <<"5369", "5369">>,
       <<"3545", "3545">>, <<"2145", "2145">>, <<"2150", "2150">>,
       <<"2130", "2130">>, <<"2155", "2155">>, <<"3656", "3656">>,
       <<"2143", "2143">>, <<"3163", "3163">>, <<"0426", "0426">>,
       <<"2160", "2160">>, <<"2170", "2170">> >>

\* Every header of the model, as <<upper case, lower case>>.
NameTable ==
    {<<"IDRSSD", "idrssd">>}
    \cup {<<"RCFD" \o c[1], "rcfd" \o c[2]>> : c \in Range(Codes)}
    \cup {<<"RCON" \o c[1], "rcon" \o c[2]>> : c \in Range(Codes)}

Quote(n) == "\"" \o n \o "\""

\* The spellings of the headers: upper and lower case.
Spellings == {p[1] : p \in NameTable} \cup {p[2] : p \in NameTable}

\* A quoted spelling -> the spelling inside the quotes.
Unquoted == AsRow([q \in {Quote(n) : n \in Spellings} |->
                      CHOOSE n \in Spellings : Quote(n) = q])

\* An upper-case spelling -> its lower-case spelling.
Lowered == AsRow([u \in {p[1] : p \in NameTable} |->
                     (CHOOSE p \in NameTable : p[1] = u)[2]])

\* c2[1:-1] when c2 is wrapped in double quotes, else c2.
strip_quotes(c) == IF c \in DOMAIN Unquoted THEN Unquoted[c] ELSE c

\* str.lower()
lower(c) == IF c \in DOMAIN Lowered THEN Lowered[c] ELSE c

\* Replaces the column names of df, position by position.
Rename(df, cols) ==
    [columns |-> cols,
     data    |-> AsSeq([i \in 1..NRows(df) |->
                    AsRow([k \in Range(cols) |->
                        df.data[i][df.columns[CHOOSE j \in 1..Len(cols) : cols[j] = k]]])])]

\* normalize_columns(df): df = df.copy(); df.columns = lower-cased names.
normalize_columns(h, id) ==
    LET cols == AsSeq([j \in 1..Len(h[id].columns) |-> lower(strip_quotes(h[id].columns[j]))])
        c == copy(h, id)
    IN  [heap |-> [c.heap EXCEPT ![c.ref] = Rename(@, cols)], ref |-> c.ref]

\* The columns after the loop of ensure_numeric_cols: those of df, then the
\* columns of cols that df lacks, created in the order of cols.
\* (ensure_columns_skip_absent: the loop converts but creates nothing.)
ensure_columns_skip_absent(df, cols) == df.columns
ensure_columns(df, cols) ==
    LET had == Range(df.columns)
    IN  df.columns \o SelectSeq(cols, LAMBDA c : c \notin had)

\* The loop of ensure_numeric_cols: out[c] = np.nan for an absent column,
\* out[c] = pd.to_numeric(out[c], errors="coerce") for a present one.
ensure_loop(df, cols) ==
    LET newcols == ensure_columns(df, cols)
        had == Range(df.columns)
        asked == Range(cols)
    IN  [columns |-> newcols,
         data    |-> AsSeq([i \in 1..NRows(df) |->
                        AsRow([k \in Range(newcols) |->
                            IF k \in asked
                            THEN IF k \in had THEN to_numeric(df.data[i][k]) ELSE NaN
                            ELSE df.data[i][k]])])]

\* ensure_numeric_cols(df, cols): out = df.copy(); every column of cols is
\* made numeric, or created as NaN when absent.
ensure_numeric_cols(h, id, cols) ==
    LET c == copy(h, id)
    IN  [heap |-> [c.heap EXCEPT ![c.ref] = ensure_loop(@, cols)], ref |-> c.ref]

\* max(axis=1, skipna=True) of two cells.
\* (max_cell_prefer: the preference rule of prefer_rcfd in its place.)
max_cell_prefer(a, b) == prefer_cell(a, b)
max_cell(a, b) ==
    IF isna(a) THEN b
    ELSE IF isna(b) THEN a
    ELSE IF a.n >= b.n THEN a ELSE b

\* df[a] or df[b] raises KeyError when the column does not exist.
rowwise_max_raises(df, a, b) == ~HasCol(df, a) \/ ~HasCol(df, b)

\* Row i of rowwise_max(df, a, b), for columns that exist.
rowwise_max_at(df, a, b, i) == max_cell(df.data[i][a], df.data[i][b])

\* rowwise_max(df, a, b), for columns that exist.
rowwise_max(df, a, b) == AsSeq([i \in 1..NRows(df) |-> rowwise_max_at(df, a, b, i)])

\* The list "needed" of compute_items_for_quarter: every mnemonic the rc
\* builder may touch, in the order of the source.
needed ==
    << "rcfd0081", "rcon0081", "rcfd0071", "rcon0071",
       "rcfd1754", "rcon1754", "rcfdjj34", "rconjj34",
       "rcfd1773", "rcon1773", "rcfdja22", "rconja22",
       "rcfd0276", "rcon0276", "rconb987",
       "rcfd0277", "rcon0277", "rcfdb989", "rconb989",
       "rcfd1350", "rcon1350",
       "rcfd2122", "rcon2122", "rcfdb528", "rconb528",
       "rcfd3128", "rcon3128", "rcfd3123", "rcon3123",
       "rcfd2125", "rcon2125", "rcfdb529", "rconb529",
       "rcfd5369", "rcon5369",
       "rcfd3545", "rcon3545", "rcfd2145", "rcon2145",
       "rcfd2150", "rcon2150", "rcfd2130", "rcon2130",
       "rcfd2155", "rcon2155", "rcfd3656", "rcon3656",
       "rcfd2143", "rcon2143", "rcfd3163", "rcon3163",
       "rcfd0426", "rcon0426",
       "rcfd2160", "rcon2160", "rcfd2170", "rcon2170" >>

(***************************************************************************)
(* The resolver on its own: one identifier pair (2170) of a table whose    *)
(* two columns may each be absent, resolved by each program's resolver.    *)
(***************************************************************************)
NoSeries == <<>>

\* The tables the resolver is applied to: IDRSSD and any subset of the two
\* columns of the pair, up to MaxResolveRows rows of any cells.
ResolveColumns == { <<"IDRSSD">>, <<"IDRSSD", "RCFD2170">>, <<"IDRSSD", "RCON2170">>,
                    <<"IDRSSD", "RCFD2170", "RCON2170">> }

ResolveRows(cols) ==
    { r \in [Range(cols) -> RawCells] : r["IDRSSD"] = Str("1") }

ResolveTables ==
    UNION { { [columns |-> cols, data |-> d] :
                d \in UNION { [1..n -> ResolveRows(cols)] : n \in 0..MaxResolveRows } } :
            cols \in ResolveColumns }

InitResolve ==
    /\ RunIdle
    /\ script \in {"full", "demo", "rc"}
    /\ pc = "start"
    /\ qdate = 0
    /\ \E t \in ResolveTables : heap = <<t>> /\ df0 = t
    /\ res = NoSeries
    /\ out = <<>>
    /\ missing_cols = <<>>
    /\ status = ""

\* build_full_panel.py: prefer_rcfd(df, "RCFD2170", "RCON2170").
ResolveFull ==
    /\ script = "full" /\ pc = "start"
    /\ LET r == prefer_rcfd(heap, 1, "RCFD2170", "RCON2170")
       IN  heap' = r.heap /\ res' = r.ret
    /\ pc' = "resolved" /\ status' = "ok"
    /\ UNCHANGED <<script, qdate, df0, out, missing_cols>>
    /\ UNCHANGED runvars

\* one_quarter_assets_demo.py: prefer_rcfd(df.get("RCFD2170"), df.get("RCON2170")).
\* df.get of an absent column is None, pd.to_numeric(None) is a float, and
\* a.copy() or b.notna() on a float raises AttributeError.
ResolveDemo ==
    /\ script = "demo" /\ pc = "start"
    /\ IF HasCol(heap[1], "RCFD2170") /\ HasCol(heap[1], "RCON2170")
       THEN /\ res' = AsSeq([i \in 1..NRows(heap[1]) |->
                         prefer_cell(to_numeric(heap[1].data[i]["RCFD2170"]),
                                     to_numeric(heap[1].data[i]["RCON2170"]))])
            /\ status' = "ok"
       ELSE /\ res' = NoSeries
            /\ status' = "AttributeError"
    /\ pc' = "resolved"
    /\ UNCHANGED <<script, qdate, heap, df0, out, missing_cols>>
    /\ UNCHANGED runvars

\* build_rc_assets_panel.py: df = normalize_columns(df_raw);
\* df2 = ensure_numeric_cols(df, needed); rowwise_max(df2, "rcfd2170", "rcon2170").
ResolveRc ==
    /\ script = "rc" /\ pc = "start"
    /\ LET df  == normalize_columns(heap, 1)
           df2 == ensure_numeric_cols(df.heap, df.ref, needed)
       IN  /\ heap' = df2.heap
           /\ IF rowwise_max_raises(df2.heap[df2.ref], "rcfd2170", "rcon2170")
              THEN res' = NoSeries /\ status' = "KeyError"
              ELSE /\ res' = rowwise_max(df2.heap[df2.ref], "rcfd2170", "rcon2170")
                   /\ status' = "ok"
    /\ pc' = "resolved"
    /\ UNCHANGED <<script, qdate, df0, out, missing_cols>>
    /\ UNCHANGED runvars

NextResolve == ResolveFull \/ ResolveDemo \/ ResolveRc

SpecResolve == InitResolve /\ [][NextResolve]_vars

\* The numeric reading of the pair in row i of the table as it was read: NaN
\* for a cell that is blank or not a number, and for a column that is absent.
CellA(i) == IF HasCol(df0, "RCFD2170") THEN to_numeric(df0.data[i]["RCFD2170"]) ELSE NaN
CellB(i) == IF HasCol(df0, "RCON2170") THEN to_numeric(df0.data[i]["RCON2170"]) ELSE NaN
Resolved == pc = "resolved" /\ status = "ok"
NonZero(c) == notna(c) /\ c.n # 0

\* C1: prefer_rcfd (full and demo) returns A's value in every row where A is
\* present and non-zero, whatever B is.
C1_PreferenceInvariant ==
    (Resolved /\ script \in {"full", "demo"}) =>
        \A i \in 1..Len(res) : NonZero(CellA(i)) => res[i] = CellA(i)

\* A row where A is non-zero and B is a different non-zero amount was resolved.
C1_Witness ==
    /\ Resolved /\ script = "full"
    /\ \E i \in 1..Len(res) :
          NonZero(CellA(i)) /\ NonZero(CellB(i)) /\ CellB(i).n > CellA(i).n

\* C2: prefer_rcfd returns B's value exactly when A is missing or zero and B
\* is present and non-zero, and A's value unchanged otherwise.
C2_PreferenceRule ==
    (Resolved /\ script = "full") =>
        \A i \in 1..Len(res) :
            IF (isna(CellA(i)) \/ CellA(i) = Num(0)) /\ NonZero(CellB(i))
            THEN res[i] = CellB(i)
            ELSE res[i] = CellA(i)

\* A=0 with B non-zero was resolved to B.
C2_Witness ==
    /\ Resolved /\ script = "full"
    /\ \E i \in 1..Len(res) : CellA(i) = Num(0) /\ NonZero(CellB(i)) /\ res[i] = CellB(i)

AbsentColumn == ~HasCol(df0, "RCFD2170") \/ ~HasCol(df0, "RCON2170")
C4_AbsentColumnIsAllNaN ==
    (pc = "resolved" /\ script \in {"full", "rc"} /\ AbsentColumn) =>
        /\ status = "ok"
        /\ Len(res) = NRows(df0)
        /\ \A i \in 1..Len(res) :
              LET a == IF HasCol(df0, "RCFD2170") THEN CellA(i) ELSE NaN
                  b == IF HasCol(df0, "RCON2170") THEN CellB(i) ELSE NaN
              IN  IF script = "full"
                  THEN res[i] = (IF isna(a) /\ notna(b) /\ b.n # 0 THEN b ELSE a)
                  ELSE res[i] = (IF isna(a) THEN b ELSE a)

\* The rcfd column is absent, the rcon column holds a non-zero amount, and
\* the rc builder resolved the row to it.
C4_Witness ==
    /\ Resolved /\ script = "rc"
    /\ ~HasCol(df0, "RCFD2170") /\ HasCol(df0, "RCON2170")
    /\ \E i \in 1..Len(res) : NonZero(CellB(i)) /\ res[i] = CellB(i)

(***************************************************************************)
(* The Regime Dispatcher.  Each output column is computed by an if/elif    *)
(* chain on the reporting date; a chain is the sequence of its branches,   *)
(* in the order of the source, each a guard and the rule it selects.       *)
(* Dates are YYYYMMDD numbers, which order as the dates do.                *)
(***************************************************************************)
\* The guards: is_leq, is_geq, between, qdate == t, and a final else.
Leq(t) == [k |-> "leq", lo |-> t, hi |-> t]
Geq(t) == [k |-> "geq", lo |-> t, hi |-> t]
Between(t1, t2) == [k |-> "between", lo |-> t1, hi |-> t2]
Eq(t) == [k |-> "eq", lo |-> t, hi |-> t]
Else == [k |-> "else", lo |-> 0, hi |-> 0]

Matches(g, d) ==
    CASE g.k = "leq" -> d <= g.hi
      [] g.k = "geq" -> d >= g.lo
      [] g.k = "between" -> g.lo <= d /\ d <= g.hi
      [] g.k = "eq" -> d = g.lo
      [] g.k = "else" -> TRUE

\* The terms of a rule: rowwise_max(df2, a, b); df2[a]; an earlier output
\* column; prefer_rcfd(df, a, b).fillna(0); prefer_rcfd(df, a, b).
Max(code) == [t |-> "max", a |-> "rcfd" \o code, b |-> "rcon" \o code]
Col(name) == [t |-> "col", a |-> name, b |-> ""]
Out(name) == [t |-> "out", a |-> name, b |-> ""]
Prefer0(code) == [t |-> "prefer0", a |-> "RCFD" \o code, b |-> "RCON" \o code]
Prefer(code) == [t |-> "prefer", a |-> "RCFD" \o code, b |-> "RCON" \o code]

\* The rules: the sum (operator +) of the terms; np.nan; pd.Series(0.0).
Sum(terms) == [op |-> "sum", terms |-> terms]
NanRule == [op |-> "nan", terms |-> <<>>]
ZeroRule == [op |-> "zero", terms |-> <<>>]

Branch(g, r) == [when |-> g, rule |-> r]
Always(r) == <<Branch(Else, r)>>

\* The branch an if/elif chain takes on date d: the first whose guard holds.
Select(chain, d) == CHOOSE i \in 1..Len(chain) :
                        /\ Matches(chain[i].when, d)
                        /\ \A j \in 1..(i - 1) : ~Matches(chain[j].when, d)

\* The declared windows of a chain that match date d (the else branch is
\* the fallback, not a window).
Windows(chain, d) == {i \in 1..Len(chain) : chain[i].when.k # "else" /\ Matches(chain[i].when, d)}

\* ---- build_rc_assets_panel.py, compute_items_for_quarter ----
\* (rc_securities_htm_ac_open: the 1754 window has no lower bound.)
rc_securities_htm_ac_open ==
    << Branch(Leq(20181231), Sum(<<Max("1754")>>)),
       Branch(Geq(20190331), Sum(<<Max("jj34")>>)),
       Branch(Else, NanRule) >>
rc_securities_htm_ac ==
    << Branch(Between(19961231, 20181231), Sum(<<Max("1754")>>)),
       Branch(Geq(20190331), Sum(<<Max("jj34")>>)),
       Branch(Else, NanRule) >>

rc_securities_equity_fv ==
    << Branch(Geq(20180331), Sum(<<Max("ja22")>>)),
       Branch(Else, NanRule) >>

rc_sec_tot ==
    << Branch(Leq(20171231), Sum(<<Out("securities_htm_ac"), Out("securities_afs_fv")>>)),
       Branch(Else, Sum(<<Out("securities_htm_ac"), Out("securities_afs_fv"),
                          Out("securities_equity_fv")>>)) >>

rc_ffs ==
    << Branch(Eq(19961231), Sum(<<Max("0276")>>)),
       Branch(Geq(20020331), Sum(<<Col("rconb987")>>)),
       Branch(Else, NanRule) >>

rc_repo ==
    << Branch(Eq(19961231), Sum(<<Max("0277")>>)),
       Branch(Geq(20020331), Sum(<<Max("b989")>>)),
       Branch(Else, NanRule) >>

rc_ffsrepo ==
    << Branch(Between(19970331, 20011231), Sum(<<Max("1350")>>)),
       Branch(Else, NanRule) >>

rc_ffsrepo_tot ==
    << Branch(Eq(19961231), Sum(<<Out("ffs"), Out("repo")>>)),
       Branch(Between(19970331, 20011231), Sum(<<Out("ffsrepo")>>)),
       Branch(Geq(20020331), Sum(<<Out("ffs"), Out("repo")>>)),
       Branch(Else, NanRule) >>

rc_loan_netunearnedinc ==
    << Branch(Leq(20001231), Sum(<<Max("2122")>>)),
       Branch(Else, Sum(<<Max("b528")>>)) >>

rc_loan_transriskreserve ==
    << Branch(Leq(20001231), Sum(<<Max("3128")>>)),
       Branch(Else, NanRule) >>

rc_loan_net ==
    << Branch(Leq(20001231), Sum(<<Max("2125")>>)),
       Branch(Else, Sum(<<Max("b529")>>)) >>

rc_loan_afs ==
    << Branch(Geq(20010331), Sum(<<Max("5369")>>)),
       Branch(Else, NanRule) >>

rc_loan_tot ==
    << Branch(Leq(20001231), Sum(<<Out("loan_net")>>)),
       Branch(Else, Sum(<<Out("loan_net"), Out("loan_afs")>>)) >>

rc_receivables ==
    << Branch(Between(19960331, 20051231), Sum(<<Max("2155")>>)),
       Branch(Between(20060331, 20090331), NanRule),
       Branch(Geq(20090630), NanRule),
       Branch(Else, NanRule) >>

rc_invrealestatefunds ==
    << Branch(Between(19960331, 20051231), NanRule),
       Branch(Between(20060331, 20090331), NanRule),
       Branch(Geq(20090630), Sum(<<Max("3656")>>)),
       Branch(Else, NanRule) >>

rc_item9 ==
    << Branch(Between(19960331, 20051231), Sum(<<Out("receivables")>>)),
       Branch(Between(20060331, 20090331), NanRule),
       Branch(Geq(20090630), Sum(<<Out("invrealestatefunds")>>)),
       Branch(Else, NanRule) >>

rc_intangibles_overlap ==
    << Branch(Leq(20001231), Sum(<<Max("2143")>>)),
       Branch(Between(20010331, 20180630), Sum(<<Max("3163"), Max("0426")>>)),
       Branch(Geq(20180630), Sum(<<Max("2143")>>)),
       Branch(Else, NanRule) >>
rc_intangibles ==
    << Branch(Leq(20001231), Sum(<<Max("2143")>>)),
       Branch(Between(20010331, 20180331), Sum(<<Max("3163"), Max("0426")>>)),
       Branch(Geq(20180630), Sum(<<Max("2143")>>)),
       Branch(Else, NanRule) >>

\* The output columns of compute_items_for_quarter that come from the
\* filing, in the order they are assigned, each with its chain.
rc_items ==
    << <<"cash_nonint", Always(Sum(<<Max("0081")>>))>>,
       <<"cash_int", Always(Sum(<<Max("0071")>>))>>,
       <<"cash_tot", Always(Sum(<<Out("cash_nonint"), Out("cash_int")>>))>>,
       <<"securities_htm_ac", rc_securities_htm_ac>>,
       <<"securities_afs_fv", Always(Sum(<<Max("1773")>>))>>,
       <<"securities_equity_fv", rc_securities_equity_fv>>,
       <<"sec_tot", rc_sec_tot>>,
       <<"ffs", rc_ffs>>,
       <<"repo", rc_repo>>,
       <<"ffsrepo", rc_ffsrepo>>,
       <<"ffsrepo_tot", rc_ffsrepo_tot>>,
       <<"loan_netunearnedinc", rc_loan_netunearnedinc>>,
       <<"loan_transriskreserve", rc_loan_transriskreserve>>,
       <<"loan_alll", Always(Sum(<<Max("3123")>>))>>,
       <<"loan_net", rc_loan_net>>,
       <<"loan_afs", rc_loan_afs>>,
       <<"loan_tot", rc_loan_tot>>,
       <<"tradingassets", Always(Sum(<<Max("3545")>>))>>,
       <<"fixedassets", Always(Sum(<<Max("2145")>>))>>,
       <<"otherrealestate", Always(Sum(<<Max("2150")>>))>>,
       <<"equitystakes", Always(Sum(<<Max("2130")>>))>>,
       <<"receivables", rc_receivables>>,
       <<"invrealestatefunds", rc_invrealestatefunds>>,
       <<"item9", rc_item9>>,
       <<"intangibles", rc_intangibles>>,
       <<"otherassets", Always(Sum(<<Max("2160")>>))>>,
       <<"assets", Always(Sum(<<Max("2170")>>))>> >>

\* ---- build_full_panel.py ----
full_htm ==
    << Branch(Geq(20190331), Sum(<<Prefer0("JJ34")>>)),
       Branch(Else, Sum(<<Prefer0("1754")>>)) >>

full_sec_tot ==
    << Branch(Geq(20180331), Sum(<<Out("htm"), Prefer0("1773"), Prefer0("JA22")>>)),
       Branch(Else, Sum(<<Out("htm"), Prefer0("1773")>>)) >>

full_ffsrepo_tot ==
    << Branch(Eq(19961231), Sum(<<Prefer0("0276"), Prefer0("0277")>>)),
       Branch(Between(19970331, 20011231), Sum(<<Prefer0("1350")>>)),
       Branch(Geq(20020331), Sum(<<Prefer0("B987"), Prefer0("B989")>>)),
       Branch(Else, Sum(<<Prefer0("1350")>>)) >>

\* (full_loan_tot_late: the 2125 window runs one quarter longer.)
full_loan_tot_late ==
    << Branch(Leq(20010331), Sum(<<Prefer0("2125")>>)),
       Branch(Else, Sum(<<Prefer0("B529"), Prefer0("5369")>>)) >>
full_loan_tot ==
    << Branch(Leq(20001231), Sum(<<Prefer0("2125")>>)),
       Branch(Else, Sum(<<Prefer0("B529"), Prefer0("5369")>>)) >>

full_item9 ==
    << Branch(Leq(20051231), Sum(<<Prefer0("2155")>>)),
       Branch(Between(20060331, 20090331), ZeroRule),
       Branch(Geq(20090630), Sum(<<Prefer0("3656")>>)),
       Branch(Else, ZeroRule) >>

full_intangibles ==
    << Branch(Leq(20001231), Sum(<<Prefer0("2143")>>)),
       Branch(Between(20010331, 20180331), Sum(<<Prefer0("3163"), Prefer0("0426")>>)),
       Branch(Geq(20180630), Sum(<<Prefer0("2143")>>)),
       Branch(Else, Sum(<<Prefer0("3163"), Prefer0("0426")>>)) >>

\* The columns process_quarter adds after the total, in order ("htm" is the
\* local of compute_securities).
full_items ==
    << <<"cash_tot", Always(Sum(<<Prefer0("0081"), Prefer0("0071")>>))>>,
       <<"htm", full_htm>>,
       <<"sec_tot", full_sec_tot>>,
       <<"ffsrepo_tot", full_ffsrepo_tot>>,
       <<"loan_tot", full_loan_tot>>,
       <<"tradingassets", Always(Sum(<<Prefer0("3545")>>))>>,
       <<"fixedassets", Always(Sum(<<Prefer0("2145")>>))>>,
       <<"otherrealestate", Always(Sum(<<Prefer0("2150")>>))>>,
       <<"equitystakes", Always(Sum(<<Prefer0("2130")>>))>>,
       <<"item9", full_item9>>,
       <<"intangibles", full_intangibles>>,
       <<"otherassets", Always(Sum(<<Prefer0("2160")>>))>> >>

Items(sc) == IF sc = "rc" THEN rc_items ELSE full_items

\* select_formula: the branch each column's chain takes on date d.
Dispatch(sc, d) ==
    AsSeq([k \in 1..Len(Items(sc)) |-> Select(Items(sc)[k][2], d)])

(***************************************************************************)
(* The dispatcher on its own: every quarter-end date of MinYear..MaxYear,  *)
(* dispatched by each builder.                                             *)
(***************************************************************************)
\* quarter_ends: March 31, June 30, September 30, December 31.
QuarterEnds == {y * 10000 + md : y \in MinYear..MaxYear, md \in {331, 630, 930, 1231}}

InitDispatch ==
    /\ RunIdle
    /\ script \in {"full", "rc"}
    /\ pc = "start"
    /\ qdate \in QuarterEnds
    /\ heap = <<>> /\ df0 = <<>>
    /\ res = NoSeries
    /\ out = <<>>
    /\ missing_cols = <<>>
    /\ status = ""

DoDispatch ==
    /\ pc = "start"
    /\ res' = Dispatch(script, qdate)
    /\ pc' = "dispatched"
    /\ UNCHANGED <<script, qdate, heap, df0, out, missing_cols, status>>
    /\ UNCHANGED runvars

NextDispatch == DoDispatch

SpecDispatch == InitDispatch /\ [][NextDispatch]_vars

ItemIndex(sc, name) == CHOOSE k \in 1..Len(Items(sc)) : Items(sc)[k][1] = name

\* C6: on every reporting date and for every column of either builder, at
\* most one declared window of the column's chain matches the date, and the
\* rule selected is that window's, or the chain's fallback when none matches.
C6_OneWindowPerDate ==
    pc = "dispatched" =>
        \A k \in 1..Len(Items(script)) :
            LET chain == Items(script)[k][2]
                W == Windows(chain, qdate)
            IN  /\ Cardinality(W) <= 1
                /\ W # {} => res[k] \in W
                /\ W = {} => chain[res[k]].when.k = "else"

\* 2018-06-30, the first quarter of the third intangibles window, was
\* dispatched by the rc builder to that window.
C6_Witness ==
    /\ pc = "dispatched" /\ script = "rc" /\ qdate = 20180630
    /\ res[ItemIndex("rc", "intangibles")] = 3

(***************************************************************************)
(* The Category Aggregator and the Reconciliation Checker.                 *)
(***************************************************************************)
\* Series + Series, row by row: NaN if either operand is NaN.
PlusCell(x, y) == IF isna(x) \/ isna(y) THEN NaN ELSE Num(x.n + y.n)

\* Series - Series, row by row.
MinusCell(x, y) == IF isna(x) \/ isna(y) THEN NaN ELSE Num(x.n - y.n)

\* .fillna(0)
\* (fillna0_keep: the fill is left out.)
fillna0_keep(c) == c
fillna0(c) == IF isna(c) THEN Num(0) ELSE c

\* Row i of a term, on table df and the output row built so far.
EvalTerm(df, row, i, term) ==
    CASE term.t = "max" -> rowwise_max_at(df, term.a, term.b, i)
      [] term.t = "col" -> df.data[i][term.a]
      [] term.t = "out" -> row[term.a]
      [] term.t = "prefer0" -> fillna0(prefer_rcfd_at(df, term.a, term.b, i))
      [] term.t = "prefer" -> prefer_rcfd_at(df, term.a, term.b, i)

RECURSIVE SumTerms(_, _, _, _, _)
SumTerms(df, row, i, terms, k) ==
    IF k = 1 THEN EvalTerm(df, row, i, terms[1])
    ELSE PlusCell(SumTerms(df, row, i, terms, k - 1), EvalTerm(df, row, i, terms[k]))

\* Row i of a rule.
EvalRule(df, row, i, rule) ==
    CASE rule.op = "nan" -> NaN
      [] rule.op = "zero" -> Num(0)
      [] rule.op = "sum" -> SumTerms(df, row, i, rule.terms, Len(rule.terms))

\* The output row i after columns lo..k of items were assigned to row.
RECURSIVE EvalSpan(_, _, _, _, _, _, _)
EvalSpan(df, items, d, i, lo, k, row) ==
    IF k < lo THEN row
    ELSE LET before == EvalSpan(df, items, d, i, lo, k - 1, row)
             chain == items[k][2]
         IN  AsRow((items[k][1] :> EvalRule(df, before, i, chain[Select(chain, d)].rule))
                   @@ before)

\* The output row i after the first k columns of items were assigned, the
\* assignments being made in order, nine at a time.
RECURSIVE EvalItems(_, _, _, _, _, _)
EvalItems(df, items, d, i, k, row) ==
    IF k <= 9 THEN EvalSpan(df, items, d, i, 1, k, row)
    ELSE Once(EvalItems(df, items, d, i, k - 9, row),
              LAMBDA before : EvalSpan(df, items, d, i, k - 8, k, before))

\* Whether evaluating a rule indexes a column the table lacks (KeyError).
RuleRaises(df, rule) ==
    \E j \in 1..Len(rule.terms) :
        \/ rule.terms[j].t = "max" /\ rowwise_max_raises(df, rule.terms[j].a, rule.terms[j].b)
        \/ rule.terms[j].t = "col" /\ ~HasCol(df, rule.terms[j].a)

\* The eleven components of the reconciliation, in the order of the source.
components ==
    << "cash_tot", "sec_tot", "ffsrepo_tot", "loan_tot", "tradingassets",
       "fixedassets", "otherrealestate", "equitystakes", "item9", "intangibles",
       "otherassets" >>

\* rc: out[components].sum(axis=1, skipna=True): NaN counts as 0, and the
\* sum of no present value is 0.
RECURSIVE sum_skipna(_, _, _)
sum_skipna(row, names, k) ==
    IF k = 0 THEN 0
    ELSE sum_skipna(row, names, k - 1) + (IF isna(row[names[k]]) THEN 0 ELSE row[names[k]].n)

\* (rc_assetcheck_poisoned: the components added with +, NaN propagating.)
RECURSIVE sum_plus(_, _, _)
sum_plus(row, names, k) ==
    IF k = 1 THEN row[names[1]]
    ELSE PlusCell(sum_plus(row, names, k - 1), row[names[k]])

rc_assetcheck_poisoned(row) == sum_plus(row, components, Len(components))
\* (rc_assetcheck_min_count: sum(min_count=1), the sum of no present value
\* being NaN.)
rc_assetcheck_min_count(row) ==
    IF \A k \in 1..Len(components) : isna(row[components[k]]) THEN NaN
    ELSE Num(sum_skipna(row, components, Len(components)))
rc_assetcheck(row) == Num(sum_skipna(row, components, Len(components)))

\* full: df["cash_tot"] + df["sec_tot"] + ... + df["otherassets"].
full_assetcheck(row) == sum_plus(row, components, Len(components))

\* abs(x) <= 1 on a cell: a comparison with NaN is False.
Abs(n) == IF n < 0 THEN 0 - n ELSE n
\* (within_tol_exact: only a difference of 0 passes.)
within_tol_exact(c) == notna(c) /\ c.n = 0
within_tol(c) == notna(c) /\ Abs(c.n) <= 1

(***************************************************************************)
(* compute_items_for_quarter(df_raw, qdate) of build_rc_assets_panel.py.   *)
(***************************************************************************)
rc_row(df2, d, i) ==
    LET ids == [index |-> i, idrssd |-> to_numeric(df2.data[i]["idrssd"]), qdate |-> d]
        items == EvalItems(df2, rc_items, d, i, Len(rc_items), ids)
        check == rc_assetcheck(items)
        both == notna(check) /\ notna(items["assets"])
    IN  AsRow(("assetcheck" :> check)
              @@ ("assetcheck_ok" :> (both /\ check = items["assets"]))
              @@ items)

\* missing_cols = [c for c in needed if c not in df.columns]
\* (missing_or_blank: a column blank in every row is listed as well.)
missing_or_blank(df, cols) ==
    SelectSeq(cols, LAMBDA c : \/ ~HasCol(df, c)
                               \/ \A i \in 1..NRows(df) : isna(df.data[i][c]))
missing_list(df, cols) ==
    LET had == Range(df.columns)
    IN  SelectSeq(cols, LAMBDA c : c \notin had)

compute_items_for_quarter(h, raw, d) ==
    LET df  == normalize_columns(h, raw)
        df2 == ensure_numeric_cols(df.heap, df.ref, needed)
        t2  == df2.heap[df2.ref]
    IN  IF ~HasCol(df.heap[df.ref], "idrssd")
        THEN [heap |-> df.heap, exc |-> "RuntimeError", out |-> <<>>, missing_cols |-> <<>>]
        ELSE IF \E k \in 1..Len(rc_items) :
                    RuleRaises(t2, rc_items[k][2][Select(rc_items[k][2], d)].rule)
        THEN [heap |-> df2.heap, exc |-> "KeyError", out |-> <<>>, missing_cols |-> <<>>]
        ELSE [heap |-> df2.heap, exc |-> "",
              out |-> AsSeq([i \in 1..NRows(t2) |-> rc_row(t2, d, i)]),
              missing_cols |-> missing_list(df.heap[df.ref], needed)]

(***************************************************************************)
(* process_quarter(qdir) of build_full_panel.py, from the table read on.   *)
(***************************************************************************)
\* str(cell): the text of a string cell, "nan" for NaN.
astype_str(c) == IF isna(c) THEN Str("nan") ELSE c

\* df.dropna(subset=["assets"]): the index labels of the rows whose total is
\* present, in order (a row keeps its label when others are dropped).
\* (dropna_keep_all: no row is dropped.)
dropna_keep_all(df) == AsSeq([i \in 1..NRows(df) |-> i])
dropna_assets(df) ==
    SelectSeq(AsSeq([i \in 1..NRows(df) |-> i]), LAMBDA i : notna(df.data[i]["assets"]))

full_row(df, d, i) ==
    LET ids == [index |-> i, bankid |-> df.data[i]["bankid"], date |-> d,
                assets |-> df.data[i]["assets"]]
        items == EvalItems(df, full_items, d, i, Len(full_items), ids)
        check == full_assetcheck(items)
        diff == MinusCell(check, items["assets"])
    IN  AsRow(("assetcheck" :> check) @@ ("asset_diff" :> diff)
              @@ ("pass_flag" :> within_tol(diff)) @@ items)

\* out = df[["bankid", "date", "assets", "assetcheck", "asset_diff", "pass_flag"]]
\* (project_keep_all: every column of the working table is kept.)
project_keep_all(row) == row
project(row) ==
    [index |-> row["index"], bankid |-> row["bankid"], date |-> row["date"], assets |-> row["assets"],
     assetcheck |-> row["assetcheck"], asset_diff |-> row["asset_diff"],
     pass_flag |-> row["pass_flag"]]

process_quarter(h, id, d) ==
    IF ~HasCol(h[id], "IDRSSD")
    THEN [heap |-> h, ret |-> "None", df |-> <<>>, out |-> <<>>]
    ELSE LET t1 == SetColumn(h[id], "bankid",
                       AsSeq([i \in 1..NRows(h[id]) |-> astype_str(h[id].data[i]["IDRSSD"])]))
             t2 == SetColumn(t1, "date", AsSeq([i \in 1..NRows(h[id]) |-> Num(d)]))
             r  == prefer_rcfd([h EXCEPT ![id] = t2], id, "RCFD2170", "RCON2170")
             t3 == SetColumn(r.heap[id], "assets", r.ret)
             kept == dropna_assets(t3)
             rows == AsSeq([j \in 1..Len(kept) |-> full_row(t3, d, kept[j])])
         IN  [heap |-> [r.heap EXCEPT ![id] = t3], ret |-> "frame", df |-> rows,
              out |-> AsSeq([i \in 1..Len(rows) |-> project(rows[i])])]

(***************************************************************************)
(* One quarter: a filing table of up to MaxRows institutions on a sample   *)
(* of reporting dates, processed by either builder.                        *)
(***************************************************************************)
\* The header of a Schedule RC file: IDRSSD, then each item as RCFD and RCON.
RECURSIVE PairColumns(_)
PairColumns(k) ==
    IF k = 0 THEN <<>>
    ELSE PairColumns(k - 1) \o <<"RCFD" \o Codes[k][1], "RCON" \o Codes[k][1]>>

FullHeader == <<"IDRSSD">> \o PairColumns(Len(Codes))

\* Headers of the model: complete; without the columns introduced in 2018
\* and 2019 and without RCFD0071 and RCFD2170 (schema drift); without IDRSSD.
DriftedHeader ==
    SelectSeq(FullHeader, LAMBDA c : c \notin {"RCFDJA22", "RCONJA22", "RCFDJJ34", "RCONJJ34",
                                               "RCFD0071", "RCFD2170"})
NoIdHeader == SelectSeq(FullHeader, LAMBDA c : c # "IDRSSD")

Headers == {FullHeader, DriftedHeader, NoIdHeader}

\* The cells of an identifier pair, as <<RCFD cell, RCON cell>>.
Blank == <<NaN, NaN>>

\* The items of a row are filled by position in their category: the first
\* sub-component of every category from p[1], the second from p[2], the
\* third (equity securities) from p[3].
SecondItems == {"0071", "1773", "0277", "B989", "5369", "0426", "3128", "3123"}
ThirdItems == {"JA22"}

Profiles ==
    { <<Blank, Blank, Blank>>,
      << <<Str("1"), NaN>>, Blank, Blank >>,
      << Blank, <<NaN, Str("2")>>, Blank >>,
      << <<Str("1"), Str("2")>>, <<Str("2"), Str("1")>>, <<Str("1"), NaN>> >>,
      << <<Str("0"), Str("2")>>, <<Str("0"), NaN>>, Blank >>,
      << <<Str("0"), Str("0")>>, <<Str("0"), Str("0")>>, <<Str("0"), Str("0")>> >>,
      << <<Str("x"), Str("1")>>, <<Str("1"), Str("x")>>, <<NaN, Str("1")>> >>,
      << Blank, Blank, <<Str("2"), NaN>> >> }

\* The reported total: not a number and blank; reported; reported as RCON;
\* reported as 0.
TotalCells == { <<Str("x"), NaN>>, <<Str("2"), NaN>>, <<Str("0"), Str("1")>>,
                <<Str("0"), NaN>> }

FileRow(header, total, p) ==
    AsRow([c \in Range(header) |->
        IF c = "IDRSSD" THEN Str("1")
        ELSE LET k == CHOOSE k \in 1..Len(Codes) :
                          c = "RCFD" \o Codes[k][1] \/ c = "RCON" \o Codes[k][1]
                 code == Codes[k][1]
                 side == IF c = "RCFD" \o code THEN 1 ELSE 2
             IN  IF code = "2170" THEN total[side]
                 ELSE IF code \in ThirdItems THEN p[3][side]
                 ELSE IF code \in SecondItems THEN p[2][side]
                 ELSE p[1][side]])

\* A file without IDRSSD is rejected before its rows are read: one total.
FileRows(header) ==
    { FileRow(header, total, p) :
        total \in (IF header = NoIdHeader THEN {<<Str("2"), NaN>>} ELSE TotalCells),
        p \in Profiles }

QuarterTables ==
    UNION { { [columns |-> header, data |-> d] :
                d \in UNION { [1..n -> FileRows(header)] : n \in 0..MaxRows } } :
            header \in Headers }

\* One reporting date in each span of dates between two cutovers of the
\* regime tables (SpecDispatch covers every quarter end).
SampleDates == { 19951231, 19961231, 20001231, 20010331, 20051231,
                 20060331, 20090630, 20180331, 20180630, 20190331 }

InitQuarter ==
    /\ RunIdle
    /\ script \in {"full", "rc"}
    /\ pc = "start"
    /\ qdate \in SampleDates
    /\ \E t \in QuarterTables : heap = <<t>> /\ df0 = t
    /\ res = NoSeries
    /\ out = <<>>
    /\ missing_cols = <<>>
    /\ status = ""

\* build_rc_assets_panel.py, main, lines 567-576: compute_items_for_quarter
\* under try/except.
ComputeRc ==
    /\ script = "rc" /\ pc = "start"
    /\ LET r == compute_items_for_quarter(heap, 1, qdate)
       IN  /\ heap' = <<r.heap[1]>>
           /\ out' = r.out
           /\ missing_cols' = r.missing_cols
           /\ status' = IF r.exc = "" THEN "ok" ELSE "compute_error"
           /\ res' = r.exc
    /\ pc' = "done"
    /\ UNCHANGED <<script, qdate, df0>>
    /\ UNCHANGED runvars

\* build_full_panel.py, main, lines 258-260: process_quarter; a quarter
\* that returns None or an empty frame is skipped.
ProcessFull ==
    /\ script = "full" /\ pc = "start"
    /\ LET r == process_quarter(heap, 1, qdate)
       IN  /\ heap' = <<r.heap[1]>>
           /\ out' = r.out
           /\ res' = r.df
           /\ status' = IF r.ret = "None" \/ Len(r.out) = 0 THEN "skip" ELSE "ok"
    /\ pc' = "done"
    /\ UNCHANGED <<script, qdate, df0, missing_cols>>
    /\ UNCHANGED runvars

NextQuarter == ComputeRc \/ ProcessFull

SpecQuarter == InitQuarter /\ [][NextQuarter]_vars

\* The rows the quarter computed, with their category columns: the output
\* of the rc builder, the working table of the full builder.
Done == pc = "done" /\ status = "ok"
Rows == IF script = "rc" THEN out ELSE res

\* C5: the table passed in is unchanged by the call.  For the rc builder,
\* the raw table after compute_items_for_quarter (which calls
\* normalize_columns, ensure_numeric_cols and rowwise_max) has the columns
\* and cells it was read with.  For the full builder, whose process_quarter
\* itself appends bankid, date and assets to the table it read, every column
\* that was read is still there, in order, with the cells it was read with.
C5_InputTableUnchanged ==
    pc = "done" =>
        IF script = "rc" THEN heap[1] = df0
        ELSE /\ NRows(heap[1]) = NRows(df0)
             /\ SubSeq(heap[1].columns, 1, Len(df0.columns)) = df0.columns
             /\ \A i \in 1..NRows(df0) : \A c \in Range(df0.columns) :
                    heap[1].data[i][c] = df0.data[i][c]

\* The rc builder computed a quarter whose file lacked needed columns (so
\* ensure_numeric_cols created some) and held an amount written as text in
\* upper-case-named columns (so cells were converted and columns renamed).
C5_Witness ==
    /\ Done /\ script = "rc" /\ Len(out) > 0 /\ Len(missing_cols) > 0
    /\ df0.data[1]["RCFD0081"] = Str("1")
    /\ out[1]["cash_nonint"] = Num(1)

(***************************************************************************)
(* The operands of a category, as the properties below speak of them: the  *)
(* resolved values its selected rule combines, read from the file as it    *)
(* was read (df0) or, for a sub-component the row carries, from the row.   *)
(***************************************************************************)
RawNum(i, name) ==
    LET m == {c \in Range(df0.columns) : lower(strip_quotes(c)) = name}
    IN  IF m = {} THEN NaN ELSE to_numeric(df0.data[i][CHOOSE c \in m : TRUE])

Operand(r, term) ==
    CASE term.t = "out" -> r[term.a]
      [] term.t = "col" -> RawNum(r["index"], term.a)
      [] term.t = "max" -> max_cell(RawNum(r["index"], term.a), RawNum(r["index"], term.b))
      [] OTHER -> prefer_cell(to_num_at(df0, term.a, r["index"]),
                              to_num_at(df0, term.b, r["index"]))

Operands(r, cat) ==
    LET chain == Items(script)[ItemIndex(script, cat)][2]
        rule == chain[Select(chain, qdate)].rule
    IN  IF rule.op = "sum"
        THEN AsSeq([j \in 1..Len(rule.terms) |-> Operand(r, rule.terms[j])])
        ELSE <<>>

AnyPresent(v) == \E j \in 1..Len(v) : notna(v[j])
AllMissing(v) == \A j \in 1..Len(v) : isna(v[j])

RECURSIVE SumPresent(_, _)
SumPresent(v, k) ==
    IF k = 0 THEN 0
    ELSE SumPresent(v, k - 1) + (IF notna(v[k]) THEN v[k].n ELSE 0)

CategoryCells(r) == AsSeq([k \in 1..Len(components) |-> r[components[k]]])

SumCategories == {"cash_tot", "sec_tot", "ffsrepo_tot", "loan_tot", "intangibles"}

\* C7: when a category (cash, securities, fed funds and repo, loans,
\* intangibles) is the sum of two or three resolved sub-components and at
\* least one of them is present for a row, the category value of the row is
\* the sum of the present sub-components, a missing one counting as 0.
\* Stated over both builders; the rc builder adds with operator +, under
\* which one missing sub-component makes the category missing.
C7_SumOfPresentSubcomponents ==
    Done => \A n \in 1..Len(Rows) : \A cat \in SumCategories :
                LET v == Operands(Rows[n], cat)
                IN  (Len(v) >= 2 /\ AnyPresent(v))
                        => Rows[n][cat] = Num(SumPresent(v, Len(v)))

\* C7, the full builder alone: there each sub-component is filled with 0
\* before the addition, and the property holds.
C7_FullSumOfPresent ==
    script = "full" => C7_SumOfPresentSubcomponents

FullTotal(i) == prefer_cell(to_num_at(df0, "RCFD2170", i), to_num_at(df0, "RCON2170", i))

\* C9 as stated: every row of a quarter's output has a present reported
\* total, in either builder.
C9_EveryRowHasTotal ==
    pc = "done" => \A n \in 1..Len(out) : notna(out[n]["assets"])

\* C9, amended: the full builder drops exactly the rows whose resolved total
\* is missing, so every row of its output has a present total (and a quarter
\* all of whose rows are dropped contributes nothing); the rc builder drops
\* no row: a row without a total stays in the output, its total missing and
\* its pass flag false.
C9_FullDropsRcKeeps ==
    /\ (Done /\ script = "full") =>
            /\ AsSeq([n \in 1..Len(out) |-> out[n]["index"]])
                 = SelectSeq(AsSeq([i \in 1..NRows(df0) |-> i]), LAMBDA i : notna(FullTotal(i)))
            /\ \A n \in 1..Len(out) : notna(out[n]["assets"])
    /\ (pc = "done" /\ script = "full" /\ status = "skip" /\ HasCol(df0, "IDRSSD")) =>
            \A i \in 1..NRows(df0) : isna(FullTotal(i))
    /\ (Done /\ script = "rc") =>
            /\ Len(out) = NRows(df0)
            /\ \A n \in 1..Len(out) :
                   /\ out[n]["index"] = n
                   /\ isna(out[n]["assets"]) => out[n]["assetcheck_ok"] = FALSE

\* The full builder read a file whose one row has no parseable total, and
\* its output has no row.
C9_Witness ==
    /\ pc = "done" /\ script = "full" /\ HasCol(df0, "IDRSSD")
    /\ NRows(df0) = 1 /\ isna(FullTotal(1))
    /\ Len(out) = 0 /\ status = "skip"

\* The rc builder kept a row whose total is missing.
C9_RcKeepsRowWithoutTotal ==
    Done /\ script = "rc" /\ Len(out) > 0 /\ isna(out[1]["assets"])

\* C10: for every row, assetcheck is the sum of the category values, a
\* missing category counting as 0; it is never missing.
C10_AssetcheckSkipsMissing ==
    Done => \A n \in 1..Len(Rows) :
                Rows[n]["assetcheck"]
                    = Num(SumPresent(CategoryCells(Rows[n]), Len(components)))

\* The rc builder computed a row in the window where item 9 is undefined:
\* item 9 is missing, another category is present, and assetcheck is their
\* sum.
C10_Witness ==
    /\ Done /\ script = "rc" /\ qdate = 20060331 /\ Len(out) > 0
    /\ isna(out[1]["item9"])
    /\ notna(out[1]["cash_tot"]) /\ out[1]["cash_tot"].n > 0
    /\ notna(out[1]["assetcheck"]) /\ out[1]["assetcheck"].n > 0

\* The reconciliation flag of an output row: assetcheck_ok in the rc
\* builder, pass_flag in the full builder.
PassFlag(r) == IF script = "rc" THEN r["assetcheck_ok"] ELSE r["pass_flag"]
BothPresent(r) == notna(r["assetcheck"]) /\ notna(r["assets"])

\* C12 as stated: in either builder the pass flag of a row is true if and
\* only if assetcheck and the reported total are both present and differ by
\* at most 1.
C12_PassWithinTolerance ==
    Done => \A n \in 1..Len(Rows) :
                PassFlag(Rows[n]) <=>
                    (BothPresent(Rows[n])
                       /\ Abs(Rows[n]["assetcheck"].n - Rows[n]["assets"].n) <= 1)

\* C12, amended: the statement holds for build_full_panel (tolerance 1); in
\* build_rc_assets_panel the flag is true if and only if both values are
\* present and exactly equal, and a row where either is absent has it false.
C12_PassFlag ==
    Done => \A n \in 1..Len(Rows) :
                PassFlag(Rows[n]) <=>
                    (BothPresent(Rows[n])
                       /\ Abs(Rows[n]["assetcheck"].n - Rows[n]["assets"].n)
                              <= (IF script = "rc" THEN 0 ELSE 1))

\* The full builder passed a row whose sum and total differ by exactly 1.
C12_Witness ==
    /\ Done /\ script = "full" /\ Len(res) > 0
    /\ Abs(res[1]["assetcheck"].n - res[1]["assets"].n) = 1
    /\ res[1]["pass_flag"] = TRUE

\* The rc builder failed a row whose sum and total differ by exactly 1.
C12_RcFailsWithinTolerance ==
    /\ Done /\ script = "rc" /\ Len(out) > 0 /\ BothPresent(out[1])
    /\ Abs(out[1]["assetcheck"].n - out[1]["assets"].n) = 1
    /\ out[1]["assetcheck_ok"] = FALSE

\* The earliest lower bound of any date window of either builder
\* (receivables, from 1996-03-31).
FirstWindowStart == 19960331

\* C13 as stated (Scenario A): in a quarter dated before every window that
\* has a first date, every category of every row is missing and every pass
\* flag is false.
C13_EarlyQuarterAllMissing ==
    (Done /\ qdate < FirstWindowStart) =>
        \A n \in 1..Len(Rows) :
            /\ \A k \in 1..Len(components) : isna(Rows[n][components[k]])
            /\ PassFlag(Rows[n]) = FALSE

\* The categories whose rule at an early date is the one in force through
\* 2000-12-31, because it is unconditional or its first window has no lower
\* bound.
OpenCategories ==
    {"cash_tot", "loan_tot", "tradingassets", "fixedassets", "otherrealestate",
     "equitystakes", "intangibles", "otherassets"}

\* C13, amended: in a quarter dated before 1996-03-31 the rc builder leaves
\* securities, fed funds and repo, and item 9 missing for every row, while
\* the eight other categories follow the rule in force through 2000-12-31
\* and are present whenever their operands are; assetcheck is present and
\* the flag is evaluated as in any other quarter.  The full builder leaves
\* no category missing in such a quarter.
C13_EarlyQuarter ==
    (Done /\ qdate < FirstWindowStart) =>
        \A n \in 1..Len(Rows) :
            LET r == Rows[n]
            IN  /\ \A cat \in OpenCategories :
                       LET chain == Items(script)[ItemIndex(script, cat)][2]
                       IN  /\ Select(chain, qdate) = Select(chain, 20001231)
                           /\ chain[Select(chain, qdate)].rule.op = "sum"
                           /\ (\A j \in 1..Len(Operands(r, cat)) : notna(Operands(r, cat)[j]))
                                  => notna(r[cat])
                /\ IF script = "rc"
                   THEN /\ isna(r["sec_tot"]) /\ isna(r["ffsrepo_tot"]) /\ isna(r["item9"])
                        /\ notna(r["assetcheck"])
                        /\ r["assetcheck_ok"] <=> (notna(r["assets"]) /\ r["assetcheck"] = r["assets"])
                   ELSE \A k \in 1..Len(components) : notna(r[components[k]])

\* The rc builder computed a row of 1995-12-31 whose cash is present (0),
\* whose securities are missing and whose flag is true.
C13_Witness ==
    /\ Done /\ script = "rc" /\ qdate = 19951231 /\ Len(out) > 0
    /\ notna(out[1]["cash_tot"]) /\ isna(out[1]["sec_tot"])
    /\ out[1]["assetcheck_ok"] = TRUE

\* The identifiers any rule of the rc builder can request.
TermIds(term) ==
    CASE term.t = "max" -> {term.a, term.b}
      [] term.t = "col" -> {term.a}
      [] OTHER -> {}
DeclaredIds ==
    UNION { UNION { UNION { TermIds(rc_items[k][2][b].rule.terms[j]) :
                            j \in 1..Len(rc_items[k][2][b].rule.terms) } :
                    b \in 1..Len(rc_items[k][2]) } :
            k \in 1..Len(rc_items) }

\* The column names of the file as read, compared without case or quotes.
FileColumns == {lower(strip_quotes(c)) : c \in Range(df0.columns)}

\* C14: the missing identifiers reported for a quarter are exactly the
\* declared identifiers that are not column names of the quarter's table,
\* names compared case-insensitively, each reported once; a column that
\* exists is not reported, even when it is blank in every row.
C14_MissingIsSetDifference ==
    (Done /\ script = "rc") =>
        /\ Range(missing_cols) = DeclaredIds \ FileColumns
        /\ Len(missing_cols) = Cardinality(Range(missing_cols))

\* The rc builder computed a quarter whose file lacks RCFD0071 and has the
\* column RCON0071 blank in its one row: the first is reported, the second
\* is not.
C14_Witness ==
    /\ Done /\ script = "rc" /\ NRows(df0) = 1
    /\ ~HasCol(df0, "RCFD0071") /\ HasCol(df0, "RCON0071")
    /\ isna(df0.data[1]["RCON0071"])
    /\ "rcfd0071" \in Range(missing_cols) /\ "rcon0071" \notin Range(missing_cols)

(***************************************************************************)
(* A run of a driver loop over the raw directory.  The directory holds one *)
(* folder per quarter, named MMDDYY; a folder holds no Schedule RC file,   *)
(* or one whose name carries the date (MMDDYYYY) or not, and whose text    *)
(* parses strictly, parses only leniently, or does not parse.              *)
(***************************************************************************)
MaxQuarters == 2

\* qdir_from_date: d.strftime("%m%d%y"), as the number MMDDYY (names of six
\* digits order as these numbers do).
qdir_from_date(d) == ((d % 10000) * 100) + ((d \div 10000) % 100)

\* The quarter end after a quarter end.
NextQuarterEnd(d) ==
    CASE d % 10000 = 331 -> d + 299
      [] d % 10000 = 630 -> d + 300
      [] d % 10000 = 930 -> d + 301
      [] OTHER -> d + 8900 + 200

\* quarter_ends(start, end): pd.date_range(start, end, freq="Q-DEC").
RECURSIVE quarter_ends(_, _)
quarter_ends(start, end) ==
    IF start > end THEN <<>> ELSE <<start>> \o quarter_ends(NextQuarterEnd(start), end)

\* sorted(p for p in BASE.iterdir() if p.is_dir()): by folder name.
sorted_dirs(dirs) == SortSeq(dirs, LAMBDA a, b : qdir_from_date(a) < qdir_from_date(b))

\* sorted(set(missing_cols)): the needed names in alphabetical order.
sorted_needed ==
    << "rcfd0071", "rcfd0081", "rcfd0276", "rcfd0277", "rcfd0426",
       "rcfd1350", "rcfd1754", "rcfd1773", "rcfd2122", "rcfd2125",
       "rcfd2130", "rcfd2143", "rcfd2145", "rcfd2150", "rcfd2155",
       "rcfd2160", "rcfd2170", "rcfd3123", "rcfd3128", "rcfd3163",
       "rcfd3545", "rcfd3656", "rcfd5369", "rcfdb528", "rcfdb529",
       "rcfdb989", "rcfdja22", "rcfdjj34", "rcon0071", "rcon0081",
       "rcon0276", "rcon0277", "rcon0426", "rcon1350", "rcon1754",
       "rcon1773", "rcon2122", "rcon2125", "rcon2130", "rcon2143",
       "rcon2145", "rcon2150", "rcon2155", "rcon2160", "rcon2170",
       "rcon3123", "rcon3128", "rcon3163", "rcon3545", "rcon3656",
       "rcon5369", "rconb528", "rconb529", "rconb987", "rconb989",
       "rconja22", "rconjj34" >>
sorted_set(cols) == SelectSeq(sorted_needed, LAMBDA c : c \in Range(cols))

\* The range of a run: --start and the quarter ends after it.
RunStart == 20001231
RECURSIVE RunEnd(_)
RunEnd(n) == IF n <= 1 THEN RunStart ELSE NextQuarterEnd(RunEnd(n - 1))
RunDates == Range(quarter_ends(RunStart, RunEnd(MaxQuarters)))

\* The files of the model.
NoTable == [columns |-> <<>>, data |-> <<>>]
RunRow(header, id, total, p) == AsRow([FileRow(header, total, p) EXCEPT !["IDRSSD"] = id])
AllBlank == <<Blank, Blank, Blank>>
SomeCash == << <<Str("1"), NaN>>, <<Str("1"), NaN>>, Blank >>
ReportedTwo == <<Str("2"), NaN>>

\* One institution, reconciled except for the items its profile fills.
TableOne ==
    [columns |-> FullHeader, data |-> <<RunRow(FullHeader, Str("1"), ReportedTwo, SomeCash)>>]
\* Two institutions in a file that lacks the drifted columns.
TableDrifted ==
    [columns |-> DriftedHeader,
     data |-> << RunRow(DriftedHeader, Str("1"), <<NaN, Str("2")>>, AllBlank),
                 RunRow(DriftedHeader, Str("2"), <<NaN, Str("0")>>, AllBlank) >>]
\* A file without the IDRSSD column (and without the drifted columns).
DriftedNoIdHeader == SelectSeq(DriftedHeader, LAMBDA c : c # "IDRSSD")
TableNoId ==
    [columns |-> DriftedNoIdHeader,
     data |-> <<FileRow(DriftedNoIdHeader, <<NaN, Str("2")>>, AllBlank)>>]
\* Rows whose identifier is blank, or not a number.
TableBadId ==
    [columns |-> FullHeader,
     data |-> << RunRow(FullHeader, NaN, <<Str("0"), NaN>>, AllBlank),
                 RunRow(FullHeader, Str("x"), ReportedTwo, AllBlank) >>]
\* One institution whose total is not reported.
TableNoTotal ==
    [columns |-> FullHeader, data |-> <<RunRow(FullHeader, Str("1"), Blank, SomeCash)>>]

\* What a quarter's folder can hold.  name is the date in the file's name, 0
\* when the name carries none; strict and lenient tell which parse succeeds.
\* second holds the table of a further file that matches the pattern and
\* whose name sorts after the first one's, if the folder has one.
File(kind, name, t) == [kind |-> kind, name |-> name, table |-> t, second |-> <<>>]
TwoFiles(name, t1, t2) == [kind |-> "strict", name |-> name, table |-> t1, second |-> <<t2>>]
Folders(d) ==
    { File("no_quarter_dir", 0, NoTable),
      File("no_schedule_rc", 0, NoTable),
      File("unparseable", d, NoTable),
      File("lenient", d, TableOne),
      File("strict", 0, TableOne) }
    \cup { File("strict", d, t) :
             t \in {TableOne, TableDrifted, TableNoId, TableBadId, TableNoTotal} }
    \cup { TwoFiles(d, TableOne, TableDrifted) }

\* The orders in which a directory can list the entries S.
ListingOrders(S) ==
    {p \in [1..Cardinality(S) -> S] : \A i, j \in 1..Cardinality(S) : p[i] = p[j] => i = j}

\* glob(pattern): the files of a folder that match, each with the rank of
\* its name, as the directory lists them (order 1: by name; 2: reversed).
glob_candidates(f, order) ==
    LET named == <<[rank |-> 1, table |-> f.table]>>
                 \o AsSeq([j \in 1..Len(f.second) |-> [rank |-> j + 1, table |-> f.second[j]]])
    IN  IF f.kind \in {"no_quarter_dir", "no_schedule_rc"} THEN <<>>
        ELSE IF order = 1 THEN named
        ELSE AsSeq([j \in 1..Len(named) |-> named[Len(named) + 1 - j]])

\* find_schedule_rc_file (find_rc_file in build_full_panel.py): the first
\* of the sorted candidates; the folder as the builder then sees it.
\* (find_first_listed: the first candidate as listed.)
find_first_listed(f, order) ==
    IF glob_candidates(f, order) = <<>> THEN f
    ELSE [f EXCEPT !.table = glob_candidates(f, order)[1].table]
find_schedule_rc_file(f, order) ==
    LET candidates == SortSeq(glob_candidates(f, order), LAMBDA a, b : a.rank < b.rank)
    IN  IF candidates = <<>> THEN f ELSE [f EXCEPT !.table = candidates[1].table]

\* pd.concat(parts, ignore_index=True): the rows in order, renumbered.
RECURSIVE flatten(_, _)
flatten(parts, k) == IF k = 0 THEN <<>> ELSE flatten(parts, k - 1) \o parts[k]
concat(parts) ==
    LET rows == flatten(parts, Len(parts))
    IN  AsSeq([n \in 1..Len(rows) |-> AsRow([rows[n] EXCEPT !["index"] = n])])

\* The number of rows of a frame that satisfy a test.
CountRows(rows, Test(_)) == Cardinality({n \in 1..Len(rows) : Test(rows[n])})

(***************************************************************************)
(* build_rc_assets_panel.py, main: one pass of the loop over the quarters. *)
(***************************************************************************)
\* A summary record of a quarter that was skipped.
rc_skip(qd, st) ==
    [qdir |-> qdir_from_date(qd), date |-> qd, banks |-> 0, missing_cols |-> <<>>,
     pass_rate |-> [defined |-> FALSE, num |-> 0, denom |-> 0], status |-> st]

\* The summary record of a quarter that was computed.
\* (rc_summary_all_rows: the pass rate is taken over every row.)
rc_summary_all_rows(qd, df_out, missing) ==
    [qdir |-> qdir_from_date(qd), date |-> qd,
     banks |-> CountRows(df_out, LAMBDA r : notna(r["idrssd"])),
     missing_cols |-> sorted_set(missing),
     pass_rate |-> [defined |-> Len(df_out) > 0,
                    num |-> CountRows(df_out, LAMBDA r : r["assetcheck_ok"]),
                    denom |-> Len(df_out)],
     status |-> "ok"]
rc_summary(qd, df_out, missing) ==
    LET denom == CountRows(df_out, LAMBDA r : notna(r["assets"]) /\ notna(r["assetcheck"]))
        num == CountRows(df_out, LAMBDA r : r["assetcheck_ok"])
    IN  [qdir |-> qdir_from_date(qd), date |-> qd,
         banks |-> CountRows(df_out, LAMBDA r : notna(r["idrssd"])),
         missing_cols |-> sorted_set(missing),
         pass_rate |-> [defined |-> denom > 0, num |-> IF denom > 0 THEN num ELSE 0,
                        denom |-> denom],
         status |-> "ok"]

\* The log entries of a quarter: one per missing column.
\* (rc_missing_per_row: one per missing column and row.)
rc_missing_per_row(qd, f, df_out, missing) ==
    LET cs == sorted_set(missing)
    IN  AsSeq([k \in 1..(Len(cs) * Len(df_out)) |->
               [qdir |-> qdir_from_date(qd), date |-> qd,
                missing_col |-> cs[((k - 1) \div Len(df_out)) + 1], source_file |-> f.name]])
rc_missing(qd, f, df_out, missing) ==
    LET cs == sorted_set(missing)
    IN  AsSeq([k \in 1..Len(cs) |->
               [qdir |-> qdir_from_date(qd), date |-> qd,
                missing_col |-> cs[k], source_file |-> f.name]])

\* A table whose IDRSSD header keeps the double quotes of the text.
QuotedHeader(t) ==
    Rename(t, AsSeq([j \in 1..Len(t.columns) |->
                        IF t.columns[j] = "IDRSSD" THEN Quote("IDRSSD") ELSE t.columns[j]]))

\* Attempt 1 of read_schedule_rc: pd.read_csv(sep="\t", dtype=str,
\* engine="python").  It raises on a text with a malformed line and on a
\* text that holds no table.
strict_read(f) ==
    IF f.kind = "strict" THEN [exc |-> "", df |-> f.table]
    ELSE [exc |-> IF f.kind = "lenient" THEN "ParserError" ELSE "EmptyDataError",
          df |-> NoTable]

\* Attempt 2: the same with quoting=csv.QUOTE_NONE, on_bad_lines="skip".
\* Malformed lines are dropped and a double quote is an ordinary character,
\* so the quoted header keeps its quotes.
lenient_read(f) ==
    IF f.kind \in {"strict", "lenient"} THEN [exc |-> "", df |-> QuotedHeader(f.table)]
    ELSE [exc |-> "EmptyDataError", df |-> NoTable]

\* read_schedule_rc: the strict attempt, then the lenient one; calls lists
\* the attempts made, named the errors the RuntimeError's message names.
read_schedule_rc(f) ==
    IF strict_read(f).exc = ""
    THEN [exc |-> "", df |-> strict_read(f).df, calls |-> <<"strict">>, named |-> <<>>]
    ELSE IF lenient_read(f).exc = ""
    THEN [exc |-> "", df |-> lenient_read(f).df, calls |-> <<"strict", "lenient">>,
          named |-> <<>>]
    ELSE [exc |-> "RuntimeError", df |-> NoTable, calls |-> <<"strict", "lenient">>,
          named |-> <<strict_read(f).exc, lenient_read(f).exc>>]

\* The records of a quarter whose file was read, from what
\* compute_items_for_quarter returned or raised (r).
rc_computed(qd, f, r) ==
    IF r.exc # "" THEN [summary |-> rc_skip(qd, "compute_error"), part |-> <<>>,
                        missing |-> <<>>, ok |-> FALSE]
    ELSE [summary |-> rc_summary(qd, r.out, r.missing_cols), part |-> r.out,
          missing |-> rc_missing(qd, f, r.out, r.missing_cols), ok |-> TRUE]

\* One iteration of main's loop, for quarter qd with folder f.
rc_iteration(qd, f) ==
    IF f.kind = "no_quarter_dir" THEN [summary |-> rc_skip(qd, "no_quarter_dir"), part |-> <<>>,
                                       missing |-> <<>>, ok |-> FALSE]
    ELSE IF f.kind = "no_schedule_rc" THEN [summary |-> rc_skip(qd, "no_schedule_rc"), part |-> <<>>,
                                            missing |-> <<>>, ok |-> FALSE]
    ELSE IF read_schedule_rc(f).exc # "" THEN [summary |-> rc_skip(qd, "parse_error"), part |-> <<>>,
                                               missing |-> <<>>, ok |-> FALSE]
    ELSE Once(compute_items_for_quarter(<<read_schedule_rc(f).df>>, 1, qd),
              LAMBDA r : rc_computed(qd, f, r))

(***************************************************************************)
(* build_full_panel.py, main: one pass of the loop over the folders.       *)
(***************************************************************************)
MinOf(S) == CHOOSE x \in S : \A y \in S : x <= y
MaxOf(S) == CHOOSE x \in S : \A y \in S : x >= y
RECURSIVE SumAbsDiff(_, _)
SumAbsDiff(rows, k) ==
    IF k = 0 THEN 0 ELSE SumAbsDiff(rows, k - 1) + Abs(rows[k]["asset_diff"].n)

\* The summary record of a quarter that contributed rows.
full_summary(qd, dfq) ==
    LET diffs == {dfq[n]["asset_diff"].n : n \in 1..Len(dfq)}
    IN  [quarter |-> qdir_from_date(qd), date |-> dfq[1]["date"], n_banks |-> Len(dfq),
         pass_rate |-> [defined |-> TRUE,
                        num |-> CountRows(dfq, LAMBDA r : r["pass_flag"]),
                        denom |-> Len(dfq)],
         mean_abs_diff |-> [sum |-> SumAbsDiff(dfq, Len(dfq)), n |-> Len(dfq)],
         min_diff |-> MinOf(diffs), max_diff |-> MaxOf(diffs)]

\* out["quarter"] = qdir.name, on what process_quarter returned (r).
full_frame(qd, r) ==
    AsSeq([n \in 1..Len(r.out) |-> AsRow(("quarter" :> qdir_from_date(qd)) @@ r.out[n])])

\* main's test of the frame of a quarter: None or empty is skipped.
full_processed(qd, ret, dfq) ==
    IF ret = "None" \/ Len(dfq) = 0
    THEN [exc |-> "", ok |-> FALSE, part |-> <<>>, summary |-> <<>>]
    ELSE [exc |-> "", ok |-> TRUE, part |-> dfq, summary |-> <<full_summary(qd, dfq)>>]

\* process_quarter(qdir) from the folder on, then main's test of its result.
\* The read is pd.read_csv with its defaults, which raises on a text that
\* does not parse strictly.
full_iteration(qd, f) ==
    IF f.kind = "no_schedule_rc" \/ f.name = 0
    THEN [exc |-> "", ok |-> FALSE, part |-> <<>>, summary |-> <<>>]
    ELSE IF f.kind # "strict"
    THEN [exc |-> "ParserError", ok |-> FALSE, part |-> <<>>, summary |-> <<>>]
    ELSE Once(process_quarter(<<f.table>>, 1, f.name),
              LAMBDA r : Once(full_frame(qd, r),
                              LAMBDA dfq : full_processed(qd, r.ret, dfq)))

(***************************************************************************)
(* The runs of the model: either builder over every raw directory of       *)
(* MaxQuarters quarters.                                                   *)
(***************************************************************************)
WrittenFile(name, rows) == [file |-> name, rows |-> rows]

InitRun ==
    /\ script \in {"rc", "full"}
    /\ pc = "loop"
    /\ qdate = 0 /\ heap = <<>> /\ df0 = NoTable /\ res = <<>> /\ out = <<>>
    /\ missing_cols = <<>> /\ status = ""
    /\ fs \in [RunDates -> UNION {Folders(d) : d \in RunDates}]
    /\ \A d \in RunDates : fs[d] \in Folders(d)
    /\ listing \in { [dirs |-> p, glob |-> g] :
                        p \in ListingOrders({d \in RunDates : fs[d].kind # "no_quarter_dir"}),
                        g \in {1, 2} }
    /\ qs = IF script = "rc" THEN quarter_ends(RunStart, RunEnd(MaxQuarters))
            ELSE sorted_dirs(listing.dirs)
    /\ qi = 1
    /\ panel_parts = <<>> /\ summary_rows = <<>> /\ missing_rows = <<>>
    /\ written = <<>>

\* (RcQuarter_overwrite: the summary list is assigned, not appended to.)
RcQuarter_overwrite ==
    /\ script = "rc" /\ pc = "loop" /\ qi <= Len(qs)
    /\ \E it \in {rc_iteration(qs[qi], find_schedule_rc_file(fs[qs[qi]], listing.glob))} :
           /\ summary_rows' = <<it.summary>>
           /\ missing_rows' = missing_rows \o it.missing
           /\ panel_parts' = IF it.ok THEN Append(panel_parts, it.part) ELSE panel_parts
    /\ qi' = qi + 1
    /\ UNCHANGED <<script, pc, qdate, heap, df0, res, out, missing_cols, status, fs, listing, qs, written>>

\* (RcQuarter_running_count: banks is a counter kept across the quarters.)
RcQuarter_running_count ==
    /\ script = "rc" /\ pc = "loop" /\ qi <= Len(qs)
    /\ \E it \in {rc_iteration(qs[qi], find_schedule_rc_file(fs[qs[qi]], listing.glob))} :
           /\ summary_rows' =
                  Append(summary_rows,
                         [it.summary EXCEPT !.banks =
                              @ + (IF summary_rows = <<>> THEN 0
                                   ELSE summary_rows[Len(summary_rows)].banks)])
           /\ missing_rows' = missing_rows \o it.missing
           /\ panel_parts' = IF it.ok THEN Append(panel_parts, it.part) ELSE panel_parts
    /\ qi' = qi + 1
    /\ UNCHANGED <<script, pc, qdate, heap, df0, res, out, missing_cols, status, fs, listing, qs, written>>

\* build_rc_assets_panel.py, main, lines 535-610: the body of the loop.
RcQuarter ==
    /\ script = "rc" /\ pc = "loop" /\ qi <= Len(qs)
    /\ \E it \in {rc_iteration(qs[qi], find_schedule_rc_file(fs[qs[qi]], listing.glob))} :
           /\ summary_rows' = Append(summary_rows, it.summary)
           /\ missing_rows' = missing_rows \o it.missing
           /\ panel_parts' = IF it.ok THEN Append(panel_parts, it.part) ELSE panel_parts
    /\ qi' = qi + 1
    /\ UNCHANGED <<script, pc, qdate, heap, df0, res, out, missing_cols, status, fs, listing, qs, written>>

\* build_rc_assets_panel.py, main, lines 612-630: concatenate and write.
RcWrite ==
    /\ script = "rc" /\ pc = "loop" /\ qi > Len(qs)
    /\ written' = << WrittenFile("panel", IF panel_parts # <<>> THEN concat(panel_parts) ELSE <<>>),
                     WrittenFile("summary", summary_rows),
                     WrittenFile("missing", missing_rows) >>
    /\ pc' = "written"
    /\ UNCHANGED <<script, qdate, heap, df0, res, out, missing_cols, status, fs, listing, qs, qi,
                   panel_parts, summary_rows, missing_rows>>

\* build_full_panel.py, main, lines 256-281: the body of the loop.  An
\* exception of process_quarter is caught nowhere and ends the program.
FullQuarter ==
    /\ script = "full" /\ pc = "loop" /\ qi <= Len(qs)
    /\ \E it \in {full_iteration(qs[qi], find_schedule_rc_file(fs[qs[qi]], listing.glob))} :
           IF it.exc # ""
           THEN /\ pc' = "aborted" /\ status' = it.exc
                /\ UNCHANGED <<qi, panel_parts, summary_rows>>
           ELSE /\ panel_parts' = IF it.ok THEN Append(panel_parts, it.part) ELSE panel_parts
                /\ summary_rows' = summary_rows \o it.summary
                /\ qi' = qi + 1
                /\ UNCHANGED <<pc, status>>
    /\ UNCHANGED <<script, qdate, heap, df0, res, out, missing_cols, fs, listing, qs, missing_rows, written>>

\* build_full_panel.py, main, lines 283-292: SystemExit when no quarter
\* succeeded; otherwise concatenate, sort the summary by folder name, write.
FullWrite ==
    /\ script = "full" /\ pc = "loop" /\ qi > Len(qs)
    /\ IF panel_parts = <<>>
       THEN pc' = "aborted" /\ status' = "SystemExit" /\ UNCHANGED written
       ELSE /\ written' = << WrittenFile("panel", concat(panel_parts)),
                             WrittenFile("summary",
                                 SortSeq(summary_rows, LAMBDA a, b : a.quarter < b.quarter)) >>
            /\ pc' = "written" /\ UNCHANGED status
    /\ UNCHANGED <<script, qdate, heap, df0, res, out, missing_cols, fs, listing, qs, qi,
                   panel_parts, summary_rows, missing_rows>>

NextRun == RcQuarter \/ RcWrite \/ FullQuarter \/ FullWrite

SpecRun == InitRun /\ [][NextRun]_vars

\* The rows of a written file; none when the file was not written.
Written(name) ==
    IF \E k \in 1..Len(written) : written[k].file = name
    THEN written[CHOOSE k \in 1..Len(written) : written[k].file = name].rows
    ELSE <<>>

(***************************************************************************)
(* Properties of a run.                                                    *)
(***************************************************************************)
Finished == pc = "written"
Panel == Written("panel")
Summary == Written("summary")
MissingLog == Written("missing")

\* The reporting date of a panel row: qdate in the rc panel, date in the
\* full panel.
RowDate(r) == IF script = "rc" THEN r["qdate"] ELSE r["date"]
PanelRowsOf(d) == {n \in 1..Len(Panel) : RowDate(Panel[n]) = d}

FullPanelColumns ==
    {"index", "bankid", "date", "assets", "assetcheck", "asset_diff", "pass_flag", "quarter"}

FolderColumns(d) == {lower(strip_quotes(c)) : c \in Range(fs[d].table.columns)}
HasFile(d) == fs[d].kind \in {"strict", "lenient"}
LogEntries(d, c) ==
    {k \in 1..Len(MissingLog) : MissingLog[k].date = d /\ MissingLog[k].missing_col = c}

\* C15 as stated: after a run the missing-field log has exactly one entry
\* for each quarter and declared identifier absent from that quarter's
\* file, and none where the identifier's column is present.
C15_OneEntryPerAbsentIdentifier ==
    (Finished /\ script = "rc") =>
        \A d \in Range(qs) : \A c \in DeclaredIds :
            Cardinality(LogEntries(d, c))
                = IF HasFile(d) /\ c \notin FolderColumns(d) THEN 1 ELSE 0

\* C15, amended: the log has exactly one entry for each quarter that was
\* computed (status ok) and declared identifier absent from that quarter's
\* file, never one per row; it has no entry where the column is present,
\* whatever the other quarters hold, and none for a quarter that failed.
C15_OneEntryPerComputedQuarter ==
    (Finished /\ script = "rc") =>
        /\ \A d \in Range(qs) : \A c \in DeclaredIds :
               Cardinality(LogEntries(d, c))
                   = IF HasFile(d) /\ "idrssd" \in FolderColumns(d) /\ c \notin FolderColumns(d)
                     THEN 1 ELSE 0
        /\ \A k \in 1..Len(MissingLog) :
               MissingLog[k].date \in Range(qs) /\ MissingLog[k].missing_col \in DeclaredIds

\* The first quarter's file has two rows and lacks RCFD0071, the second
\* quarter's file has the column: the log has one entry for the first
\* quarter and the identifier, and none for the second.
C15_Witness ==
    /\ Finished /\ script = "rc"
    /\ fs[qs[1]].table = TableDrifted /\ fs[qs[2]].table = TableOne /\ HasFile(qs[2])
    /\ Cardinality(LogEntries(qs[1], "rcfd0071")) = 1
    /\ Cardinality(LogEntries(qs[2], "rcfd0071")) = 0

\* C16: the rows of the panel are in ascending order of reporting date, and
\* an institution that reports in two quarters has a row in each.  Stated
\* over both builders; the full builder takes the folders in the order of
\* their names (MMDDYY), which is not the order of their dates.
C16_PanelInDateOrder ==
    Finished =>
        /\ \A m, n \in 1..Len(Panel) : m < n => RowDate(Panel[m]) <= RowDate(Panel[n])
        /\ Len(Panel) = SumPresent(AsSeq([k \in 1..Len(panel_parts) |-> Num(Len(panel_parts[k]))]),
                                   Len(panel_parts))

\* C16, the rc builder alone: it iterates quarter_ends(start, end), and the
\* property holds.
C16_RcPanelInDateOrder ==
    script = "rc" => C16_PanelInDateOrder

\* Whether a panel row carries an institution identifier: a number in the
\* rc panel's idrssd, a text that reads as a number in the full panel's
\* bankid.
IdPresent(r) ==
    IF script = "rc" THEN notna(r["idrssd"]) ELSE notna(to_numeric(r["bankid"]))

\* The summary records of a quarter, and the row count and status of one.
SummaryOf(d) == {k \in 1..Len(Summary) : Summary[k].date = d}
RowCount(rec) == IF script = "rc" THEN rec.banks ELSE rec.n_banks
StatusOf(rec) == IF "status" \in DOMAIN rec THEN rec.status ELSE ""

\* C17: every row of the panel has a present institution identifier (a
\* filing row whose identifier is blank or not numeric does not remain),
\* and the row count of each summary record equals the number of rows that
\* quarter contributed to the panel.  Neither builder drops such a row.
C17_EveryPanelRowIdentified ==
    Finished =>
        /\ \A n \in 1..Len(Panel) : IdPresent(Panel[n])
        /\ \A k \in 1..Len(Summary) :
               RowCount(Summary[k]) = Cardinality(PanelRowsOf(Summary[k].date))

\* C17, the count alone in the full builder: n_banks is the length of the
\* frame the quarter contributed, and the property holds.
C17_FullCountsContributedRows ==
    (Finished /\ script = "full") =>
        \A k \in 1..Len(Summary) :
            RowCount(Summary[k]) = Cardinality(PanelRowsOf(Summary[k].date))

\* C18: no failure of a single quarter aborts the run; when a quarter's
\* folder or file is missing, its file does not parse or its computation
\* raises, every later quarter is still attempted and the outputs are
\* written.  The full builder reads the file outside any try and stops
\* with SystemExit when no quarter succeeded.
C18_NoQuarterAbortsRun ==
    /\ pc # "aborted"
    /\ Finished => (qi = Len(qs) + 1 /\ Len(Summary) <= Len(summary_rows) /\ written # <<>>)

\* C18, the rc builder alone: every branch of its loop continues, and the
\* property holds.
C18_RcNoQuarterAbortsRun ==
    script = "rc" => C18_NoQuarterAbortsRun

\* A quarter that cannot be located, parsed or identified.
NoIdColumn(d) == HasFile(d) /\ "idrssd" \notin FolderColumns(d)
Failed(d) == ~HasFile(d) \/ NoIdColumn(d)

\* C19: every attempted quarter is recorded in the summary exactly once; a
\* quarter that cannot be located, parsed or identified is recorded with a
\* status flag and a row count of zero and contributes no panel row and no
\* log entry; a quarter that succeeds is recorded with status ok.  The
\* full builder records nothing for a quarter it skips, and no status.
C19_EveryQuarterRecordedOnce ==
    Finished =>
        \A d \in Range(qs) :
            /\ Cardinality(SummaryOf(d)) = 1
            /\ \A k \in SummaryOf(d) :
                   IF Failed(d)
                   THEN /\ StatusOf(Summary[k]) \notin {"", "ok"}
                        /\ RowCount(Summary[k]) = 0
                        /\ PanelRowsOf(d) = {}
                        /\ {j \in 1..Len(MissingLog) : MissingLog[j].date = d} = {}
                   ELSE StatusOf(Summary[k]) = "ok"

\* C19, the rc builder alone: each branch of its loop appends one summary
\* record, and the property holds.
C19_RcEveryQuarterRecordedOnce ==
    script = "rc" => C19_EveryQuarterRecordedOnce

\* The statuses of a missing folder or file and of a parse error.
OtherStatuses == {"no_quarter_dir", "no_schedule_rc", "parse_error"}

\* C20: a quarter whose file has no institution-id column contributes no
\* row to the panel, is recorded with a status of its own (not ok, not the
\* status of a missing file or of a parse error), and the run goes on to
\* the next quarter.  The full builder returns None for such a file, as it
\* does for a missing one, and records no status.
C20_NoInstitutionColumn ==
    \A k \in 1..Len(qs) :
        (k < qi /\ NoIdColumn(qs[k])) =>
            /\ pc # "aborted"
            /\ Finished =>
                   /\ PanelRowsOf(qs[k]) = {}
                   /\ \E j \in SummaryOf(qs[k]) :
                          StatusOf(Summary[j]) \notin ({"", "ok"} \cup OtherStatuses)

\* C20, the rc builder alone: the quarter is recorded as compute_error, and
\* the property holds.
C20_RcNoInstitutionColumn ==
    script = "rc" => C20_NoInstitutionColumn

(***************************************************************************)
(* Properties of the regime tables, on every quarter-end date.             *)
(***************************************************************************)
\* The item code a term reads, in upper case.
CodeOf(term) ==
    Codes[CHOOSE k \in 1..Len(Codes) :
              term.a \in {"rcfd" \o Codes[k][2], "rcon" \o Codes[k][2],
                          "RCFD" \o Codes[k][1], "RCON" \o Codes[k][1]}][1]

\* The rule a column's chain selects on date d, and the rule the dispatched
\* state holds for a column of the script that ran.
SelectedRule(sc, name, d) ==
    LET chain == Items(sc)[ItemIndex(sc, name)][2]
    IN  chain[Select(chain, d)].rule
Taken(name) ==
    Items(script)[ItemIndex(script, name)][2][res[ItemIndex(script, name)]].rule

\* The item codes a rule reads on date d, through the output columns it adds.
RECURSIVE RuleCodes(_, _, _)
RuleCodes(sc, rule, d) ==
    IF rule.op # "sum" THEN {}
    ELSE UNION { IF t.t = "out" THEN RuleCodes(sc, SelectedRule(sc, t.a, d), d)
                 ELSE {CodeOf(t)} : t \in Range(rule.terms) }

Dispatched == pc = "dispatched"

\* C22: on every reporting date of the undefined item-9 window (2006-03-31
\* through 2009-03-31) item 9 is no value for every row, not zero; outside
\* the window it is the acceptances value (2155) up to 2005-12-31 and the
\* real-estate-venture value (3656) from 2009-06-30 on.  Stated over both
\* builders; the full builder sets item 9 to zero in the window, and the rc
\* builder has no value before 1996-03-31.
C22_Item9Regimes ==
    Dispatched =>
        IF 20060331 <= qdate /\ qdate <= 20090331
        THEN Taken("item9").op = "nan"
        ELSE IF qdate <= 20051231
        THEN RuleCodes(script, Taken("item9"), qdate) = {"2155"}
        ELSE RuleCodes(script, Taken("item9"), qdate) = {"3656"}

\* C22, the rc builder from its first window on: no value in the undefined
\* window, 2155 before it and 3656 after it; the property holds.
C22_RcItem9Regimes ==
    (script = "rc" /\ qdate >= FirstWindowStart) => C22_Item9Regimes

\* C22, the full builder: zero in the undefined window.
C22_FullItem9ZeroInGap ==
    (Dispatched /\ script = "full" /\ 20060331 <= qdate /\ qdate <= 20090331) =>
        Taken("item9").op = "zero"

\* The regime of the fed-funds-and-repo total on date d: the items read,
\* or none.
FfsRegime(sc, d) == RuleCodes(sc, SelectedRule(sc, "ffsrepo_tot", d), d)

\* C27: the fed-funds-and-repo total is 0276 plus 0277 on 1996-12-31, the
\* combined item 1350 from 1997-03-31 through 2001-12-31, and B987 plus
\* B989 from 2002-03-31 on, both window ends inclusive; both builders
\* select the same regime for the same date.  Before 1996-12-31 the rc
\* builder selects no regime and the full builder selects item 1350.
C27_FedFundsRegimes ==
    Dispatched =>
        /\ qdate = 19961231 =>
               RuleCodes(script, Taken("ffsrepo_tot"), qdate) = {"0276", "0277"}
        /\ (19970331 <= qdate /\ qdate <= 20011231) =>
               RuleCodes(script, Taken("ffsrepo_tot"), qdate) = {"1350"}
        /\ qdate >= 20020331 =>
               RuleCodes(script, Taken("ffsrepo_tot"), qdate) = {"B987", "B989"}
        /\ FfsRegime("rc", qdate) = FfsRegime("full", qdate)

\* C27, from 1996-12-31 on: the three windows are as stated in each
\* builder and the builders agree; the property holds.
C27_FedFundsRegimesFrom1996 ==
    qdate >= 19961231 => C27_FedFundsRegimes

\* The held-to-maturity column of each builder.
HtmName(sc) == IF sc = "rc" THEN "securities_htm_ac" ELSE "htm"

\* C28: the held-to-maturity component is taken from 1754 exactly when
\* 1996-12-31 <= d <= 2018-12-31, from JJ34 exactly when d >= 2019-03-31,
\* and is not defined before 1996-12-31; the equity component JA22 is in
\* the securities total exactly when d >= 2018-03-31, the total being HTM
\* plus AFS through 2017-12-31.  Stated over both builders; the full
\* builder takes 1754 on every date before 2019-03-31.
C28_SecuritiesRegimes ==
    Dispatched =>
        LET htm == RuleCodes(script, Taken(HtmName(script)), qdate)
            tot == RuleCodes(script, Taken("sec_tot"), qdate)
        IN  /\ htm = {"1754"} <=> (19961231 <= qdate /\ qdate <= 20181231)
            /\ htm = {"JJ34"} <=> qdate >= 20190331
            /\ qdate < 19961231 => htm = {}
            /\ "JA22" \in tot <=> qdate >= 20180331
            /\ tot \ {"JA22"} = htm \cup {"1773"}

\* C28, the rc builder alone: the property holds.
C28_RcSecuritiesRegimes ==
    script = "rc" => C28_SecuritiesRegimes

\* The guard of the branch the dispatched state holds for a column.
TakenGuard(name) ==
    Items(script)[ItemIndex(script, name)][2][res[ItemIndex(script, name)]].when

\* C29: on every quarter-end date, intangibles is the 2143 value through
\* 2000-12-31, goodwill (3163) plus other intangibles (0426) from
\* 2001-03-31 through 2018-03-31, and 2143 again from 2018-06-30 on; loans
\* is the 2125 value through 2000-12-31 and B529 plus 5369 from 2001-03-31
\* on; the fallback branch after the intangibles windows is never taken.
C29_IntangiblesAndLoans ==
    Dispatched =>
        LET int == RuleCodes(script, Taken("intangibles"), qdate)
            loan == RuleCodes(script, Taken("loan_tot"), qdate)
        IN  /\ qdate <= 20001231 => (int = {"2143"} /\ loan = {"2125"})
            /\ (20010331 <= qdate /\ qdate <= 20180331) => int = {"3163", "0426"}
            /\ qdate >= 20180630 => int = {"2143"}
            /\ qdate >= 20010331 => loan = {"B529", "5369"}
            /\ qdate <= 20001231 \/ qdate >= 20010331
            /\ TakenGuard("intangibles").k # "else"

\* 2018-03-31, the last quarter of the goodwill window, was dispatched by
\* the full builder to that window, and its loans to B529 plus 5369.
C29_Witness ==
    /\ Dispatched /\ script = "full" /\ qdate = 20180331
    /\ res[ItemIndex("full", "intangibles")] = 2
    /\ RuleCodes("full", Taken("loan_tot"), qdate) = {"B529", "5369"}

(***************************************************************************)
(* Properties of the reconciliation of build_rc_assets_panel.py.           *)
(***************************************************************************)
\* C30: in build_rc_assets_panel assetcheck is present in every output row,
\* and is 0 when all eleven components are missing; a row is not evaluated
\* only when its reported total is missing; a row whose components are all
\* missing passes exactly when its reported total is 0.
C30_AssetcheckAlwaysPresent ==
    (Done /\ script = "rc") =>
        \A n \in 1..Len(out) :
            LET r == out[n]
            IN  /\ notna(r["assetcheck"])
                /\ BothPresent(r) <=> notna(r["assets"])
                /\ AllMissing(CategoryCells(r)) =>
                       /\ r["assetcheck"] = Num(0)
                       /\ r["assetcheck_ok"] <=> r["assets"] = Num(0)

\* The rc builder computed a row with every component missing and a
\* reported total of 0: assetcheck is 0 and the row passes.
C30_Witness ==
    /\ Done /\ script = "rc" /\ Len(out) > 0
    /\ AllMissing(CategoryCells(out[1]))
    /\ out[1]["assets"] = Num(0) /\ out[1]["assetcheck"] = Num(0)
    /\ out[1]["assetcheck_ok"] = TRUE

\* A row with every component missing and a reported total of 2 is
\* evaluated and fails.
C30_AllMissingFails ==
    /\ Done /\ script = "rc" /\ Len(out) > 0
    /\ AllMissing(CategoryCells(out[1]))
    /\ out[1]["assets"] = Num(2) /\ out[1]["assetcheck_ok"] = FALSE

(***************************************************************************)
(* Properties of the summary and of the accumulation over a run.           *)
(***************************************************************************)
\* The panel rows of a quarter that were evaluated, and those that passed.
Evaluated(d) == {n \in PanelRowsOf(d) : BothPresent(Panel[n])}
Passed(d) == {n \in PanelRowsOf(d) : PassFlag(Panel[n])}

\* C23: the pass rate of a quarter is the number of rows whose flag is true
\* divided by the number of rows where both assetcheck and the reported
\* total are present, never by rows that were not evaluated, and it is
\* undefined (not 0) when no row was evaluated.
C23_PassRateOverEvaluatedRows ==
    Finished =>
        \A k \in 1..Len(Summary) :
            LET d == Summary[k].date
                rate == Summary[k].pass_rate
            IN  /\ rate.defined <=> Evaluated(d) # {}
                /\ rate.defined =>
                       /\ rate.num = Cardinality(Passed(d))
                       /\ rate.denom = Cardinality(Evaluated(d))
                /\ Passed(d) \subseteq Evaluated(d)

\* The rc builder ran over a first quarter whose one row has no reported
\* total (the rate is undefined though the quarter has a row) and a second
\* quarter with two evaluated rows of which one passes.
C23_Witness ==
    /\ Finished /\ script = "rc" /\ Len(Summary) = 2
    /\ Summary[1].status = "ok" /\ PanelRowsOf(qs[1]) # {}
    /\ Summary[1].pass_rate.defined = FALSE
    /\ Summary[2].pass_rate = [defined |-> TRUE, num |-> 1, denom |-> 2]

\* Sequence a is the beginning of sequence b.
IsPrefix(a, b) == Len(a) <= Len(b) /\ SubSeq(b, 1, Len(a)) = a

\* C25: the accumulated panel, summary and missing-field log are
\* append-only across the loop: a step for quarter k, whether it succeeds
\* or fails, leaves every row and record accumulated before it unchanged
\* and only appends.
C25_AppendOnly ==
    [][ /\ IsPrefix(panel_parts, panel_parts')
        /\ IsPrefix(summary_rows, summary_rows')
        /\ IsPrefix(missing_rows, missing_rows') ]_vars

\* The rc builder computed a first quarter that logged missing columns and
\* then failed on the second: the first quarter's frame, record and log
\* entries are still there, followed by the record of the failure.
C25_Witness ==
    /\ script = "rc" /\ qi = 3 /\ Len(summary_rows) = 2
    /\ summary_rows[1].status = "ok" /\ summary_rows[2].status = "parse_error"
    /\ Len(panel_parts) = 1 /\ Len(panel_parts[1]) = 2 /\ Len(missing_rows) > 0

\* A frame without its row labels, which the concatenation renumbers.
Unlabelled(rows) ==
    AsSeq([n \in 1..Len(rows) |-> [c \in (DOMAIN rows[n]) \ {"index"} |-> rows[n][c]]])

\* What one quarter yields when its folder is processed on its own.
Alone(d) == IF script = "rc" THEN rc_iteration(d, fs[d]) ELSE full_iteration(d, fs[d])
AloneSummary(it) == IF script = "rc" THEN <<it.summary>> ELSE it.summary
AloneMissing(it) == IF script = "rc" THEN it.missing ELSE <<>>

ReadTried(k) ==
    /\ fs[qs[k]].kind \in {"strict", "lenient", "unparseable"}
    /\ script = "full" => fs[qs[k]].name # 0
    /\ k < qi \/ (k = qi /\ pc = "aborted")
\* The read of quarter k failed: the quarter is recorded as a parse error
\* by the rc builder; the full builder stopped on the parser's exception.
ReadFailed(k) ==
    IF script = "rc" THEN summary_rows[k].status = "parse_error"
    ELSE k = qi /\ pc = "aborted" /\ status = "ParserError"

\* C26: reading a quarter's file first attempts a strict parse and, only
\* if that fails, a lenient parse; the read fails only when both attempts
\* fail.  Stated over both builders; the full builder makes one strict
\* attempt and stops on its failure.
C26_ReadFailsOnlyWhenBothFail ==
    \A k \in 1..Len(qs) :
        ReadTried(k) =>
            (ReadFailed(k) <=>
                (strict_read(fs[qs[k]]).exc # "" /\ lenient_read(fs[qs[k]]).exc # ""))

\* C26, the rc builder alone: the strict attempt comes first, the lenient
\* one is made exactly when the strict one fails, the read fails exactly
\* when both fail and its error names both, and a file that parses strictly
\* yields the strict table, quotes removed.  The property holds.
C26_RcStrictThenLenient ==
    script = "rc" =>
        \A k \in 1..Len(qs) :
            ReadTried(k) =>
                \A rd \in {read_schedule_rc(fs[qs[k]])} :
                    /\ rd.calls[1] = "strict"
                    /\ "lenient" \in Range(rd.calls) <=> strict_read(fs[qs[k]]).exc # ""
                    /\ rd.exc # "" <=> (strict_read(fs[qs[k]]).exc # ""
                                          /\ lenient_read(fs[qs[k]]).exc # "")
                    /\ rd.exc # "" => rd.named = <<strict_read(fs[qs[k]]).exc,
                                                    lenient_read(fs[qs[k]]).exc>>
                    /\ strict_read(fs[qs[k]]).exc = "" => rd.df = fs[qs[k]].table
                    /\ ReadFailed(k) <=> rd.exc # ""

\* The rc builder read a file that parses only leniently and computed its
\* quarter.
C26_RcLenientRead ==
    /\ script = "rc" /\ qi > 1 /\ fs[qs[1]].kind = "lenient"
    /\ summary_rows[1].status = "ok" /\ summary_rows[1].banks = 1

(***************************************************************************)
(* Properties of a run as a function of the files.                         *)
(***************************************************************************)
\* The quarters in the order the builder takes them, from the folders
\* alone: by date for the rc builder, by folder name for the full builder.
FolderOrder ==
    IF script = "rc" THEN quarter_ends(RunStart, RunEnd(MaxQuarters))
    ELSE sorted_dirs(SelectSeq(quarter_ends(RunStart, RunEnd(MaxQuarters)),
                               LAMBDA d : fs[d].kind # "no_quarter_dir"))

\* What each quarter yields on its own, in that order.
AloneInOrder == AsSeq([k \in 1..Len(FolderOrder) |-> Alone(FolderOrder[k])])
PanelFromFiles ==
    \A its \in {AloneInOrder} :
        Panel = concat(flatten(AsSeq([k \in 1..Len(its) |->
                                         IF its[k].ok THEN <<its[k].part>> ELSE <<>>]),
                               Len(its)))
SummaryFromFiles ==
    \A its \in {AloneInOrder} :
        Summary = flatten(AsSeq([k \in 1..Len(its) |-> AloneSummary(its[k])]), Len(its))
MissingFromFiles ==
    \A its \in {AloneInOrder} :
        MissingLog = flatten(AsSeq([k \in 1..Len(its) |-> AloneMissing(its[k])]), Len(its))

\* C21: the outputs of a run are determined by the quarter files and the
\* date range: whatever order the file system lists the folders and the
\* files of a folder in, the panel, the summary and the missing-field log
\* are the same, rows in the same order.
C21_OutputsDeterminedByFiles ==
    Finished =>
        /\ PanelFromFiles
        /\ SummaryFromFiles
        /\ MissingFromFiles

\* The full builder finished a run over two folders listed against the
\* order of their names, one of them holding two candidate files listed
\* against the order of theirs.
C21_Witness ==
    /\ Finished /\ script = "full" /\ Len(listing.dirs) = 2
    /\ listing.dirs # sorted_dirs(listing.dirs) /\ listing.glob = 2
    /\ \E d \in RunDates : fs[d].second # <<>>
    /\ Len(Panel) >= 2 /\ Len(Summary) = 2

====
